---- MODULE Spec2Model ----
(***************************************************************************)
(* Model of the chat pipeline of the Hevy workout optimizer backend:       *)
(* routers/chat.py (workout_chat), services/ai_workout_optimizer.py        *)
(* (template cache, get_chat_response, get_modification_response) and      *)
(* services/intent_service.py (entity extraction, context resolution).     *)
(*                                                                         *)
(* Text is modelled at word granularity: a message or a title is a         *)
(* sequence of tokens, each token a word made of characters of the class   *)
(* [\w()-] or a single punctuation character; tokens are separated by one  *)
(* space.  Python's substring test and the regular expressions of the      *)
(* source are computed on these sequences.                                 *)
(***************************************************************************)
EXTENDS Integers, Sequences, FiniteSets, TLC

(***************************************************************************)
(* State: the class-level template cache and the attributes of the one     *)
(* AIWorkoutOptimizer instance that dependencies.py hands to every request *)
(***************************************************************************)

VARIABLES
    cached_templates,       \* AIWorkoutOptimizer._cached_templates
    pending_swap_context,   \* _ai_optimizer_instance.pending_swap_context
    conversation_history,   \* _ai_optimizer_instance.conversation_history
    pending_owner,          \* the conversation whose turn stored the pending context
    last,                   \* what the most recent chat request did
    inflight,               \* chat requests suspended at an await of workout_chat
    remote,                 \* what the Hevy API and the completion endpoint serve
    call                    \* the most recent service call since the last chat turn

vars == <<cached_templates, pending_swap_context, conversation_history, pending_owner, last,
          inflight, remote, call>>

(***************************************************************************)
(* Values                                                                  *)
(***************************************************************************)

\* Python's None for a text or identifier value
None == "None"

\* Python's None for a title (a token sequence): no title has zero tokens
NoName == <<>>

\* Tokens that are not words: punctuation and words carrying an apostrophe
NonWordTokens == {",", ".", "?", "!", "let's", "what's"}

\* str.lower() on a token
Lower(w) ==
    CASE w = "In"      -> "in"
      [] w = "Push"    -> "push"
      [] w = "Leg"     -> "leg"
      [] w = "Day"     -> "day"
      [] w = "Bench"   -> "bench"
      [] w = "Press"   -> "press"
      [] w = "Incline" -> "incline"
      [] w = "Decline" -> "decline"
      [] w = "Chest"   -> "chest"
      [] w = "Fly"     -> "fly"
      [] w = "Dips"    -> "dips"
      [] w = "Up"      -> "up"
      [] w = "Pec"     -> "pec"
      [] w = "Deck"    -> "deck"
      [] w = "Cable"   -> "cable"
      [] w = "Crossover" -> "crossover"
      [] w = "Squat"   -> "squat"
      [] w = "Hack"    -> "hack"
      [] OTHER         -> w

\* str.title() on a lower-case token
Title(w) ==
    CASE w = "push"  -> "Push"
      [] w = "leg"   -> "Leg"
      [] w = "day"   -> "Day"
      [] w = "bench" -> "Bench"
      [] w = "press" -> "Press"
      [] w = "squat" -> "Squat"
      [] w = "swap"  -> "Swap"
      [] OTHER       -> w

LowerSeq(s) == [i \in 1..Len(s) |-> Lower(s[i])]

TitleSeq(s) == [i \in 1..Len(s) |-> Title(s[i])]

\* Python's `needle in hay` on token sequences, for a non-empty needle
Contains(hay, needle) ==
    \E i \in 0..(Len(hay) - Len(needle)) :
        SubSeq(hay, i + 1, i + Len(needle)) = needle

\* Length of the longest run of word tokens of s that starts at position i
RECURSIVE WordRun(_, _)
WordRun(s, i) ==
    IF i > Len(s) \/ s[i] \in NonWordTokens THEN 0 ELSE 1 + WordRun(s, i + 1)

(***************************************************************************)
(* Entity extraction (regular expressions of the source)                   *)
(***************************************************************************)

\* The verbs of (?:use|with|go with|choose|select), matched with re.IGNORECASE
SelectVerbs == {"use", "with", "choose", "select"}

\* Position where the capture group starts if the selection pattern matches
\* with its verb at token i, 0 if it does not match there
SelectCaptureAt(s, i) ==
    IF Lower(s[i]) \in SelectVerbs /\ WordRun(s, i + 1) > 0 THEN i + 1
    ELSE IF /\ Lower(s[i]) = "go"
            /\ i + 1 <= Len(s)
            /\ Lower(s[i + 1]) = "with"
            /\ WordRun(s, i + 2) > 0 THEN i + 2
    ELSE 0

\* re.search(r"(?:use|with|go with|choose|select)\s+([\w\s\(\)-]+)", message,
\* re.IGNORECASE) followed by group(1).strip(); NoName when there is no match
ExtractChoice(message) ==
    LET hits == {i \in 1..Len(message) : SelectCaptureAt(message, i) > 0}
    IN  IF hits = {} THEN NoName
        ELSE LET i == CHOOSE h \in hits : \A g \in hits : h <= g
                 b == SelectCaptureAt(message, i)
             IN  SubSeq(message, b, b + WordRun(message, b) - 1)

\* The loop over the stored suggestions: the first suggestion, in list order,
\* whose lower-cased name occurs in the lower-cased message
MatchSuggestion(suggestions, message) ==
    LET hits == {k \in 1..Len(suggestions) :
                    /\ suggestions[k].name # NoName
                    /\ Contains(LowerSeq(message), LowerSeq(suggestions[k].name))}
    IN  IF hits = {} THEN NoName
        ELSE suggestions[CHOOSE h \in hits : \A g \in hits : h <= g].name

\* Choice extraction without the loop over the stored suggestions
ChosenAlternativePatternOnly(suggestions, message) ==
    LET hits == {i \in 1..Len(message) : SelectCaptureAt(message, i) > 0}
    IN  IF hits = {} THEN <<>>
        ELSE LET i == CHOOSE h \in hits : \A g \in hits : h <= g
                 b == SelectCaptureAt(message, i)
             IN  SubSeq(message, b, b + WordRun(message, b) - 1)

\* Choice extraction of the router and of the handler (same code twice):
\* suggestion match first, selection pattern as the fallback
ChosenAlternative(suggestions, message) ==
    IF MatchSuggestion(suggestions, message) # NoName
    THEN MatchSuggestion(suggestions, message)
    ELSE ExtractChoice(message)

\* keywords of _extract_exercise_name, in the order they are tried
SwapKeywords ==
    << <<"swap">>, <<"alternative", "for">>, <<"alternatives", "for">>,
       <<"replace">>, <<"instead", "of">> >>

\* Characters that end the non-greedy capture of _extract_exercise_name
NameTerminators == {".", "?", "!"}

\* The capture of rf"(?i)\b{keyword}\s+([\w\s\(\)-]+?)(?:[\.\?!\"\']|\Z)"
\* with the keyword at token i: the whole word run after the keyword, which
\* must be followed by a terminator or by the end of the message
KeywordCaptureAt(s, kw, i) ==
    LET b == i + Len(kw)
        n == WordRun(s, b)
    IN  IF /\ i + Len(kw) - 1 <= Len(s)
           /\ LowerSeq(SubSeq(s, i, i + Len(kw) - 1)) = kw
           /\ n > 0
           /\ (b + n > Len(s) \/ s[b + n] \in NameTerminators)
        THEN SubSeq(s, b, b + n - 1)
        ELSE NoName

KeywordCapture(s, kw) ==
    LET hits == {i \in 1..Len(s) : KeywordCaptureAt(s, kw, i) # NoName}
    IN  IF hits = {} THEN NoName
        ELSE KeywordCaptureAt(s, kw, CHOOSE h \in hits : \A g \in hits : h <= g)

\* IntentService._extract_exercise_name: first keyword with a match wins
RECURSIVE ExtractFrom(_, _)
ExtractFrom(s, k) ==
    IF k > Len(SwapKeywords) THEN NoName
    ELSE IF KeywordCapture(s, SwapKeywords[k]) # NoName
         THEN KeywordCapture(s, SwapKeywords[k])
         ELSE ExtractFrom(s, k + 1)

extract_exercise_name(message) == ExtractFrom(message, 1)

\* Tokens that end the greedy capture of _extract_routine_name
RoutineTerminators == {",", "?", "!"}

\* The capture of
\* r"(?:in|from)\s+(?:the|my)?\s+([\w\s\(\)-]+)\s*(?:\bfor\b|\bcan\b|,|\?|!|$)"
\* with in/from at token i of the lower-cased message.  With single spaces the
\* two \s+ force "the" or "my" to be present.  The capture is greedy: the
\* whole word run when a terminator or the end follows it, else the longest
\* prefix of the run that is followed by the word "for" or "can".
RoutineCaptureAt(s, i) ==
    LET b == i + 2
        n == WordRun(s, b)
        cuts == {j \in 2..n : s[b + j - 1] \in {"for", "can"}}
    IN  IF ~ (/\ s[i] \in {"in", "from"}
              /\ i + 1 <= Len(s)
              /\ s[i + 1] \in {"the", "my"}
              /\ n > 0)
        THEN NoName
        ELSE IF b + n > Len(s) \/ s[b + n] \in RoutineTerminators
        THEN SubSeq(s, b, b + n - 1)
        ELSE IF cuts # {}
        THEN SubSeq(s, b, b + (CHOOSE j \in cuts : \A k \in cuts : k <= j) - 2)
        ELSE NoName

\* IntentService._extract_routine_name: the message is lower-cased first, so
\* isupper() is never true and the capture is always title-cased
extract_routine_name(message) ==
    LET s == LowerSeq(message)
        hits == {i \in 1..Len(s) : RoutineCaptureAt(s, i) # NoName}
    IN  IF hits = {} THEN NoName
        ELSE TitleSeq(RoutineCaptureAt(s, CHOOSE h \in hits : \A g \in hits : h <= g))

(***************************************************************************)
(* Exercise templates, routines, messages, intents                         *)
(***************************************************************************)

\* One entry of get_all_exercise_templates: title, id, primary muscle group
Template(title, id, muscle) ==
    [title |-> title, id |-> id, primary_muscle_group |-> muscle]

BenchPress == <<"Bench", "Press">>

InclinePress == <<"Incline", "Press">>

DeclinePress == <<"Decline", "Press">>

CableCrossover == <<"Cable", "Crossover">>

Squat == <<"Squat">>

LegPress == <<"Leg", "Press">>

HackSquat == <<"Hack", "Squat">>

\* Values the remote template catalogue can have when the cache is loaded
TemplateCatalogues ==
    { <<>>,
      << Template(BenchPress, "t1", "chest"), Template(InclinePress, "t2", "chest"),
         Template(Squat, "t8", "quadriceps") >>,
      << Template(Squat, "t8", "quadriceps"), Template(LegPress, "t9", "quadriceps"),
         Template(HackSquat, "t10", "quadriceps"), Template(BenchPress, "t1", "chest"),
         Template(DeclinePress, None, "chest") >>,
      << Template(InclinePress, "t2", "chest"), Template(<<"Chest", "Fly">>, "t3", "chest"),
         Template(BenchPress, "t1", "chest"), Template(<<"Dips">>, "t4", "chest"),
         Template(<<"Push", "Up">>, "t5", "chest"), Template(<<"Pec", "Deck">>, "t6", "chest"),
         Template(CableCrossover, "t7", "chest"), Template(Squat, "t8", "quadriceps") >> }

\* One set of a routine exercise
RoutineSet(type, weight, reps) == [type |-> type, weight_kg |-> weight, reps |-> reps]

\* One exercise of a routine as the remote API returns it
Exercise(index, title, id) ==
    [index |-> index, title |-> title, exercise_template_id |-> id,
     sets |-> <<RoutineSet("warmup", "40", "10"), RoutineSet("normal", "60", "8")>>]

Routine(id, title, exercises) == [id |-> id, title |-> title, exercises |-> exercises]

PushDay == <<"Push", "Day">>

LegDay == <<"Leg", "Day">>

\* Values the remote routine list can have when a turn fetches it (the
\* routines can be edited in the app between turns; a failed fetch yields the
\* empty list, see HevyAPI.get_routines)
RemoteRoutineLists ==
    { <<>>,
      << Routine("r1", PushDay, <<Exercise("0", BenchPress, "t1"), Exercise("1", Squat, "t8")>>),
         Routine("r2", LegDay, <<Exercise("0", Squat, "t8")>>) >>,
      << Routine("r1", PushDay, <<Exercise("0", InclinePress, "t2"), Exercise("1", Squat, "t8")>>),
         Routine(None, LegDay, <<Exercise("0", Squat, "t8")>>) >> }

\* Chat messages sent in the model
Messages ==
    { <<"In", "my", "Push", "Day", ",", "swap", "Bench", "Press">>,
      <<"In", "my", "Leg", "Day", ",", "swap", "Squat">>,
      <<"swap", "Bench", "Press">>,
      <<"use", "Incline", "Press">>,
      <<"incline", "press">>,
      <<"let's", "go", "with", "Hack", "Squat">>,
      <<"use", "Decline", "Press">>,
      <<"use", "Cable", "Crossover">>,
      <<"use", "the", "first", "one">>,
      <<"what's", "the", "weather">>,
      <<>> }

\* Keys of IntentService.intents
InfoIntents == {"WORKOUT_INFO", "EXERCISE_INFO", "ROUTINE_INFO", "PROGRAM_INFO", "GENERAL_INFO"}

AnalysisIntents ==
    {"WORKOUT_ANALYSIS", "PROGRAM_ANALYSIS", "EXERCISE_ANALYSIS", "COMPARATIVE_ANALYSIS"}

ModificationIntents == {"EXERCISE_SWAP", "PROGRAM_CREATE", "ROUTINE_UPDATE", "SUGGESTION_IMPLEMENT"}

IntentKeys == InfoIntents \cup AnalysisIntents \cup ModificationIntents \cup {"UNKNOWN", "GREETING"}

\* What classify_intent returns in the model: one key for every branch of the
\* router's dispatch
ClassifiedIntents ==
    {"EXERCISE_SWAP", "SUGGESTION_IMPLEMENT", "ROUTINE_UPDATE", "WORKOUT_INFO",
     "PROGRAM_ANALYSIS", "WORKOUT_ANALYSIS", "GREETING", "UNKNOWN"}

\* Outcomes of one call of the completion endpoint: a non-empty text, an
\* empty text, an exception
CompletionOutcomes == {"text", "empty", "error"}

\* The conversations that send chat requests
Conversations == {"A", "B"}

(***************************************************************************)
(* AIWorkoutOptimizer: completion call and modification handler            *)
(***************************************************************************)

\* The value None of pending_swap_context
NoPending == [type |-> "None"]

\* An assignment that misses the attribute
ClearPendingMissed(p) == p

\* self.pending_swap_context = None
ClearPending(p) == NoPending

\* Truth value of a pending context of kind exercise swap
IsPendingSwap(p) == p # NoPending /\ p.type = "EXERCISE_SWAP"

HistoryEntry(role, content) == [role |-> role, content |-> content]

\* What a handler call leaves behind: the pending context, the history, the
\* routine writes it issued, the branch it ended in, the kind of response it
\* returned and whether it ended by raising
Outcome(p, h, writes, branch, response, raised) ==
    [pending |-> p, history |-> h, writes |-> writes, branch |-> branch,
     response |-> response, raised |-> raised, completions |-> <<>>]

\* The text of a completion: "completion" stands for any non-empty text, ""
\* is the empty text
CompletionText(c) == IF c = "text" THEN "completion" ELSE ""

\* A completion call whose error is answered with a fixed text
get_chat_response_swallowing(p, h, writes, branch, c) ==
    [pending |-> p,
     history |-> IF c # "error"
                 THEN h \o <<[role |-> "user", content |-> "prompt"],
                             [role |-> "assistant",
                              content |-> IF c = "text" THEN "completion" ELSE ""]>>
                 ELSE h,
     writes |-> writes, branch |-> branch,
     response |-> IF c = "text" THEN "completion"
                  ELSE IF c = "empty" THEN "" ELSE "error_text",
     raised |-> FALSE, completions |-> <<c>>]

\* get_chat_response: on success the prompt and the completion are appended
\* to the conversation history and the completion is returned; a failing
\* completion call is re-raised
get_chat_response(p, h, writes, branch, c) ==
    [(IF c # "error"
      THEN Outcome(p, h \o <<HistoryEntry("user", "prompt"),
                            HistoryEntry("assistant", CompletionText(c))>>,
                   writes, branch, CompletionText(c), FALSE)
      ELSE Outcome(p, h, writes, branch, "none", TRUE))
     EXCEPT !.completions = <<c>>]

\* Display limit of the propose phase
max_suggestions == 5

\* potential_swaps[:max_suggestions + 1]
FirstNAndOne(seq, n) == SubSeq(seq, 1, IF Len(seq) < n + 1 THEN Len(seq) ELSE n + 1)

\* potential_swaps[:max_suggestions]
FirstN(seq, n) == SubSeq(seq, 1, IF Len(seq) < n THEN Len(seq) ELSE n)

\* Step 1 of the propose phase: primary muscle group of the first cached
\* template titled like the exercise to swap, None if there is none
MuscleGroupOf(cache, exercise) ==
    LET hits == {i \in 1..Len(cache) : cache[i].title = exercise}
    IN  IF hits = {} THEN None
        ELSE cache[CHOOSE h \in hits : \A g \in hits : h <= g].primary_muscle_group

\* Step 2 of the propose phase: the other templates of that muscle group, in
\* cache order
RECURSIVE PotentialSwaps(_, _, _)
PotentialSwaps(cache, exercise, muscle) ==
    IF cache = <<>> THEN <<>>
    ELSE LET t == Head(cache)
             rest == PotentialSwaps(Tail(cache), exercise, muscle)
         IN  IF t.primary_muscle_group = muscle /\ t.title # exercise
             THEN <<[name |-> t.title, id |-> t.id, muscles |-> t.primary_muscle_group]>> \o rest
             ELSE rest

\* A context that keeps the suggestions of the context it replaces
MergedPendingContext(target_routine, routine_name, exercise, potential_swaps) ==
    [type |-> "EXERCISE_SWAP",
     routine_id |-> target_routine.id,
     routine_name |-> routine_name,
     exercise_to_swap_title |-> exercise,
     suggestions |-> IF pending_swap_context.type = "EXERCISE_SWAP"
                     THEN pending_swap_context.suggestions
                     ELSE SubSeq(potential_swaps, 1,
                                 IF Len(potential_swaps) < 5 THEN Len(potential_swaps) ELSE 5),
     current_exercises |-> target_routine.exercises]

\* The context stored at the end of a successful propose phase
NewPendingContext(target_routine, routine_name, exercise, potential_swaps) ==
    [type |-> "EXERCISE_SWAP",
     routine_id |-> target_routine.id,
     routine_name |-> routine_name,
     exercise_to_swap_title |-> exercise,
     suggestions |-> FirstN(potential_swaps, max_suggestions),
     current_exercises |-> target_routine.exercises]

TheRoutine == <<"the", "routine">>

\* `if target_routine and exercise_to_swap_name and potential_swaps`
ShouldStoreWithoutSwaps(target, exercise, swaps) ==
    target # <<>> /\ exercise # NoName

ShouldStore(target, exercise, swaps) ==
    target # <<>> /\ exercise # NoName /\ swaps # <<>>

\* get_modification_response, intent EXERCISE_SWAP (propose phase).
\* context.target_routine_details is <<>> or <<routine>>.
ProposeSwap(p, h, context, cache, c) ==
    LET exercise == context.exercise_name
        target == context.target_routine_details
        routine_name == IF target # <<>> THEN target[1].title ELSE TheRoutine
        muscle == MuscleGroupOf(cache, exercise)
        swaps == IF muscle # None THEN PotentialSwaps(cache, exercise, muscle) ELSE <<>>
        branch == IF swaps # <<>>
                  THEN (IF target # <<>> THEN "proposed" ELSE "no_target_routine")
                  ELSE IF muscle # None THEN "no_candidates" ELSE "unknown_exercise"
        stored == IF ShouldStore(target, exercise, swaps)
                  THEN NewPendingContext(target[1], routine_name, exercise, swaps)
                  ELSE ClearPending(p)
    IN  IF exercise = NoName
        THEN get_chat_response(p, h, <<>>, "missing_exercise_name", c)
        ELSE IF cache = <<>>
        THEN get_chat_response(p, h, <<>>, "propose_cache_empty", c)
        ELSE IF c # "error"
        THEN get_chat_response(stored, h, <<>>, branch, c)
        ELSE get_chat_response(p, h, <<>>, branch, c)

\* The exercise put in place of the swapped one
NewExercise(title, template_id) ==
    [title |-> title, notes |-> None, exercise_template_id |-> template_id,
     superset_id |-> None,
     sets |-> << RoutineSet("normal", None, None), RoutineSet("normal", None, None),
                 RoutineSet("normal", None, None) >>]

\* An entry carried over with its index field
WithIndexKept(e) == e

\* exercise.pop('index', None)
WithoutIndex(e) == [f \in (DOMAIN e) \ {"index"} |-> e[f]]

\* An updated list whose new entry keeps the template id of the old one
UpdatedExercisesOldId(current_exercises, exercise_to_swap_title, chosen_title, template_id) ==
    [i \in 1..Len(current_exercises) |->
        IF current_exercises[i].title = exercise_to_swap_title
        THEN [title |-> chosen_title, notes |-> "None",
              exercise_template_id |-> current_exercises[i].exercise_template_id,
              superset_id |-> "None",
              sets |-> << [type |-> "normal", weight_kg |-> "None", reps |-> "None"],
                          [type |-> "normal", weight_kg |-> "None", reps |-> "None"],
                          [type |-> "normal", weight_kg |-> "None", reps |-> "None"] >>]
        ELSE [f \in (DOMAIN current_exercises[i]) \ {"index"} |-> current_exercises[i][f]]]

\* Step 4 of the implement phase: the updated exercise list
UpdatedExercises(current_exercises, exercise_to_swap_title, chosen_title, template_id) ==
    [i \in 1..Len(current_exercises) |->
        IF current_exercises[i].title = exercise_to_swap_title
        THEN NewExercise(chosen_title, template_id)
        ELSE WithoutIndex(current_exercises[i])]

\* A swap_performed flag that is never checked
SwapPerformedUnchecked(current_exercises, exercise_to_swap_title) == TRUE

\* swap_performed
SwapPerformed(current_exercises, exercise_to_swap_title) ==
    \E i \in 1..Len(current_exercises) : current_exercises[i].title = exercise_to_swap_title

\* hevy_api.update_routine(routine_id, {"routine": {"title", "exercises"}})
RoutineWrite(routine_id, title, exercises) ==
    [routine_id |-> routine_id, title |-> title, exercises |-> exercises]

\* A `return` inside the try block that skips the finally clause
AfterFinallySkipped(p) == p

\* pending_swap_context after a `return` inside the try block: the finally
\* clause runs before the function returns
AfterFinally(p) == ClearPending(p)

\* A `return await self.get_chat_response(prompt)` inside the try block: when
\* the completion call raises, the except clause takes over and the final
\* get_chat_response after the try statement produces the response
ReturnInsideTry(p, h, branch, c1, c2) ==
    IF c1 # "error"
    THEN get_chat_response(AfterFinally(p), h, <<>>, branch, c1)
    ELSE [get_chat_response(AfterFinally(ClearPending(p)), h, <<>>, branch, c2)
          EXCEPT !.completions = <<c1, c2>>]

\* First cached template with the chosen title, <<>> if there is none
FindTemplate(cache, title) ==
    LET hits == {i \in 1..Len(cache) : cache[i].title = title}
    IN  IF hits = {} THEN <<>>
        ELSE <<cache[CHOOSE h \in hits : \A g \in hits : h <= g]>>

\* The try block of the implement phase
SwapExecution(p, h, chosen, cache, c1, c2, w) ==
    LET found == FindTemplate(cache, chosen)
        updated == UpdatedExercises(p.current_exercises, p.exercise_to_swap_title,
                                    chosen, found[1].id)
        write == RoutineWrite(p.routine_id, p.routine_name, updated)
    IN  IF cache = <<>>
        THEN ReturnInsideTry(p, h, "implement_cache_empty", c1, c2)
        ELSE IF found = <<>>
        THEN ReturnInsideTry(p, h, "title_not_found", c1, c2)
        ELSE IF found[1].id = None
        THEN ReturnInsideTry(ClearPending(p), h, "missing_template_id", c1, c2)
        ELSE IF ~SwapPerformed(p.current_exercises, p.exercise_to_swap_title)
        THEN ReturnInsideTry(ClearPending(p), h, "stale_snapshot", c1, c2)
        ELSE IF w
        THEN get_chat_response(AfterFinally(p), h, <<write>>, "swap_done", c1)
        ELSE get_chat_response(AfterFinally(ClearPending(p)), h, <<write>>,
                               "write_failed", c1)

\* An implement phase that gives the proposal up when it has to ask again
ImplementSuggestionGivingUp(p, h, message, cache, c1, c2, w) ==
    LET chosen == ChosenAlternative(p.suggestions, message)
    IN  IF ~IsPendingSwap(p)
        THEN get_chat_response(ClearPending(p), h, <<>>, "no_pending_swap", c1)
        ELSE IF chosen = NoName
        THEN get_chat_response(ClearPending(p), h, <<>>, "clarification", c1)
        ELSE IF p.routine_id = None \/ p.exercise_to_swap_title = NoName
        THEN get_chat_response(ClearPending(p), h, <<>>, "lost_details", c1)
        ELSE SwapExecution(p, h, chosen, cache, c1, c2, w)

\* An implement phase that looks at the template cache before it looks at
\* the pending context
ImplementSuggestionCacheFirst(p, h, message, cache, c1, c2, w) ==
    LET chosen == ChosenAlternative(p.suggestions, message)
    IN  IF cache = <<>>
        THEN get_chat_response(ClearPending(p), h, <<>>, "implement_cache_empty", c1)
        ELSE IF ~IsPendingSwap(p)
        THEN get_chat_response(ClearPending(p), h, <<>>, "no_pending_swap", c1)
        ELSE IF chosen = NoName
        THEN get_chat_response(p, h, <<>>, "clarification", c1)
        ELSE IF p.routine_id = None \/ p.exercise_to_swap_title = NoName
        THEN get_chat_response(ClearPending(p), h, <<>>, "lost_details", c1)
        ELSE SwapExecution(p, h, chosen, cache, c1, c2, w)

\* get_modification_response, intent SUGGESTION_IMPLEMENT (implement phase)
ImplementSuggestion(p, h, message, cache, c1, c2, w) ==
    LET chosen == ChosenAlternative(p.suggestions, message)
    IN  IF ~IsPendingSwap(p)
        THEN get_chat_response(ClearPending(p), h, <<>>, "no_pending_swap", c1)
        ELSE IF chosen = NoName
        THEN get_chat_response(p, h, <<>>, "clarification", c1)
        ELSE IF p.routine_id = None \/ p.exercise_to_swap_title = NoName
        THEN get_chat_response(ClearPending(p), h, <<>>, "lost_details", c1)
        ELSE SwapExecution(p, h, chosen, cache, c1, c2, w)

\* get_modification_response
get_modification_response(p, h, message, intent, context, cache, c1, c2, w) ==
    IF intent = "EXERCISE_SWAP" THEN ProposeSwap(p, h, context, cache, c1)
    ELSE IF intent = "SUGGESTION_IMPLEMENT"
    THEN ImplementSuggestion(p, h, message, cache, c1, c2, w)
    ELSE get_chat_response(p, h, <<>>, "not_implemented", c1)

(***************************************************************************)
(* IntentService.get_relevant_context                                      *)
(***************************************************************************)

\* HevyAPI.find_routine_by_title: the first routine with exactly that title,
\* as <<routine>>, or <<>> for None
find_routine_by_title(routines, title) ==
    LET hits == {i \in 1..Len(routines) : routines[i].title = title}
    IN  IF hits = {} THEN <<>>
        ELSE <<routines[CHOOSE h \in hits : \A g \in hits : h <= g]>>

\* The entries of the context mapping that the handlers of the swap protocol
\* read; an absent key is NoName or <<>>
Context(exercise_name, target_routine_details, chosen_alternative_title) ==
    [exercise_name |-> exercise_name,
     target_routine_details |-> target_routine_details,
     chosen_alternative_title |-> chosen_alternative_title]

\* Messages the context resolver is called with in the model
ResolverMessages ==
    { <<"In", "my", "Push", "Day", ",", "swap", "Bench", "Press">>,
      <<"swap", "Bench", "Press">>,
      <<"use", "Incline", "Press">>,
      <<"what", "was", "my", "last", "workout">>,
      <<"what", "is", "my", "current", "program">>,
      <<"what's", "the", "weather">> }

\* The three extractions, tabulated over the messages of the model
ExerciseNameIn == [m \in Messages \cup ResolverMessages |-> extract_exercise_name(m)]

RoutineNameIn == [m \in Messages \cup ResolverMessages |-> extract_routine_name(m)]

ChoiceIn == [m \in Messages \cup ResolverMessages |-> ExtractChoice(m)]

\* What the Hevy API serves to the resolver: the routines and workouts of the
\* account, whether the requests for routines, folders and workouts succeed,
\* and whether get_current_program_details finds a program
HevyAccounts ==
    [kind : {"hevy"}, routines : RemoteRoutineLists, routines_ok : BOOLEAN,
     folders_ok : BOOLEAN, workouts_ok : BOOLEAN, workouts : {<<>>, <<"w1">>},
     program_found : BOOLEAN]

\* HevyAPI.get_routines: the routines, an empty page when the request fails
get_routines(hevy) == IF hevy.routines_ok THEN hevy.routines ELSE <<>>

\* The context mapping gathered so far: the keys it holds, the values the
\* swap protocol reads, and whether an exception is on its way out
Gathered(keys, exercise_name, target_routine_details, chosen_alternative_title, raised) ==
    [keys |-> keys, exercise_name |-> exercise_name,
     target_routine_details |-> target_routine_details,
     chosen_alternative_title |-> chosen_alternative_title, raised |-> raised]

\* The entry of the workouts fetch: get_workouts re-raises a failed request
WorkoutsEntry(hevy, key) ==
    IF ~hevy.workouts_ok THEN Gathered({}, NoName, <<>>, NoName, TRUE)
    ELSE IF hevy.workouts = <<>> THEN Gathered({}, NoName, <<>>, NoName, FALSE)
    ELSE Gathered({key}, NoName, <<>>, NoName, FALSE)

\* The entries of get_current_program_details, which returns None on any error
ProgramEntries(hevy) ==
    IF hevy.program_found
    THEN Gathered({"current_program_folder", "current_program_routines"},
                  NoName, <<>>, NoName, FALSE)
    ELSE Gathered({}, NoName, <<>>, NoName, FALSE)

\* The branch for EXERCISE_SWAP and ROUTINE_UPDATE: the exercise name, the
\* routine looked up by its title, all routines, and the folders, fetched in
\* a try block of their own
ModificationEntries(message, hevy) ==
    LET name == ExerciseNameIn[message]
        target == IF RoutineNameIn[message] # NoName
                  THEN find_routine_by_title(get_routines(hevy), RoutineNameIn[message])
                  ELSE <<>>
    IN  Gathered((IF name # NoName THEN {"exercise_name"} ELSE {})
                 \cup (IF target # <<>> THEN {"target_routine_details"} ELSE {})
                 \cup {"all_routines"}
                 \cup (IF hevy.folders_ok THEN {"routine_folders"} ELSE {}),
                 name, target, NoName, FALSE)

\* The body of get_relevant_context, branch by branch
ResolverBody(intent, message, hevy) ==
    IF intent = "SUGGESTION_IMPLEMENT"
    THEN Gathered(IF ChoiceIn[message] # NoName THEN {"chosen_alternative_title"} ELSE {},
                  NoName, <<>>, ChoiceIn[message], FALSE)
    ELSE IF intent = "WORKOUT_INFO"
    THEN WorkoutsEntry(hevy, IF Contains(LowerSeq(message), <<"last", "workout">>)
                             THEN "last_workout" ELSE "recent_workouts")
    ELSE IF intent = "ROUTINE_INFO"
    THEN Gathered({"all_routines"}, NoName, <<>>, NoName, FALSE)
    ELSE IF intent \in {"EXERCISE_INFO", "PROGRAM_CREATE"}
    THEN Gathered({"all_exercise_templates"}, NoName, <<>>, NoName, FALSE)
    ELSE IF intent = "PROGRAM_ANALYSIS"
    THEN ProgramEntries(hevy)
    ELSE IF intent \in {"WORKOUT_ANALYSIS", "EXERCISE_ANALYSIS", "COMPARATIVE_ANALYSIS"}
    THEN WorkoutsEntry(hevy, "recent_workouts")
    ELSE IF intent \in {"EXERCISE_SWAP", "ROUTINE_UPDATE"}
    THEN ModificationEntries(message, hevy)
    ELSE IF intent = "PROGRAM_INFO"
    THEN IF Contains(LowerSeq(message), <<"current">>)
         THEN ProgramEntries(hevy)
         ELSE IF hevy.folders_ok
              THEN Gathered({"routine_folders"}, NoName, <<>>, NoName, FALSE)
              ELSE Gathered({}, NoName, <<>>, NoName, TRUE)
    ELSE Gathered({}, NoName, <<>>, NoName, FALSE)

\* A resolver that lets the exception of a failed fetch out
RelevantContextUncaught(intent, message, hevy) ==
    ResolverBody(intent, message, hevy)

\* get_relevant_context with everything it gathers: the exception of a
\* failed fetch ends the body and is swallowed, the mapping is returned as
\* it is then
RelevantContext(intent, message, hevy) ==
    [ResolverBody(intent, message, hevy) EXCEPT !.raised = FALSE]

\* get_relevant_context as the router's handlers see it: the entries the swap
\* protocol reads; routines is what the routine requests return
ContextOf(intent, message, routines) ==
    LET c == RelevantContext(intent, message,
                             [kind |-> "hevy", routines |-> routines, routines_ok |-> TRUE,
                              folders_ok |-> TRUE, workouts_ok |-> TRUE, workouts |-> <<>>,
                              program_found |-> FALSE])
    IN  Context(c.exercise_name, c.target_routine_details, c.chosen_alternative_title)

\* ContextOf, tabulated over the calls of the model
ContextIn ==
    [intent \in IntentKeys, m \in Messages, routines \in RemoteRoutineLists
        |-> ContextOf(intent, m, routines)]

get_relevant_context(intent, message, routines) == ContextIn[intent, message, routines]

(***************************************************************************)
(* Initial state                                                           *)
(***************************************************************************)

\* Longest conversation history a chat request of the model starts from
MaxHistory == 0

\* _cached_templates: None until loaded, then a list
NotLoaded == [loaded |-> FALSE, list |-> <<>>]

Loaded(templates) == [loaded |-> TRUE, list |-> templates]

\* load_templates_cache: fetches only while the cache is None
load_templates_cache(cache, fetched) ==
    IF ~cache.loaded THEN Loaded(fetched) ELSE cache

NoRequest ==
    [conv |-> "none", message |-> <<>>, had_pending |-> FALSE, owner_before |-> "none",
     router_cleared |-> FALSE, classified |-> FALSE, resolved |-> FALSE,
     cleared_unrelated |-> FALSE,
     intent |-> "none", context |-> Context(NoName, <<>>, NoName),
     reported_intent |-> "none", chosen |-> NoName,
     handler_saw_pending |-> FALSE, branch |-> "none", writes |-> <<>>,
     completions |-> <<>>,
     response |-> "none", raised |-> FALSE]

\* Chat requests the event loop can hold suspended at the same time
Requests == {1, 2}

\* No request is suspended under this request number
Idle == [message |-> <<>>, p0 |-> NoPending, p1 |-> NoPending, history |-> <<>>,
         suspended |-> FALSE]

\* The services have not been called
NoCall == [op |-> "none"]

\* The remote services are not consulted
NoRemote == [kind |-> "none"]

\* The process before its first request: nothing pending, no history
InitChat ==
    /\ pending_swap_context = NoPending
    /\ conversation_history = <<>>
    /\ pending_owner = "none"
    /\ last = NoRequest
    /\ inflight = [r \in Requests |-> Idle]
    /\ call = NoCall

Init ==
    /\ InitChat
    /\ cached_templates = NotLoaded
    /\ remote = NoRemote

(***************************************************************************)
(* routers/chat.py                                                         *)
(***************************************************************************)

\* A pending check that keeps the context when no choice is found
RouterPendingCheckKeeping(p, message) == p

\* The router's pending check: the pending context after it
RouterPendingCheck(p, message) ==
    IF IsPendingSwap(p) /\ ChosenAlternative(p.suggestions, message) = NoName
    THEN ClearPending(p)
    ELSE p

\* A check after classification that leaves the slot alone
KeepOnUnrelatedIntent(p, intent) == p

\* The pending context after the check that follows classification
ClearOnUnrelatedIntent(p, intent) ==
    IF intent # "SUGGESTION_IMPLEMENT" /\ p # NoPending THEN ClearPending(p) ELSE p

\* Routing based on intent: the handler's outcome
Dispatch(p, h, message, intent, context, cache, c1, c2, w) ==
    IF intent = "SUGGESTION_IMPLEMENT"
    THEN get_modification_response(p, h, message, intent, context, cache, c1, c2, w)
    ELSE IF intent = "GREETING" THEN Outcome(p, h, <<>>, "greeting", "greeting", FALSE)
    ELSE IF intent = "UNKNOWN" THEN Outcome(p, h, <<>>, "unknown", "unknown", FALSE)
    ELSE IF intent \in InfoIntents THEN get_chat_response(p, h, <<>>, "info", c1)
    ELSE IF intent = "PROGRAM_ANALYSIS"
    THEN [get_chat_response(p, h, <<>>, "analysis", c1)
          EXCEPT !.response = IF c1 # "error" THEN "analysis_report" ELSE "analysis_error",
                 !.raised = FALSE]
    ELSE IF intent \in AnalysisIntents THEN get_chat_response(p, h, <<>>, "analysis", c1)
    ELSE IF intent \in ModificationIntents
    THEN get_modification_response(p, h, message, intent, context, cache, c1, c2, w)
    ELSE Outcome(p, h, <<>>, "fallback", "fallback", FALSE)

\* A history update that appends the response even when it is empty
AppendTurnUnguarded(h, message, response) ==
    h \o <<[role |-> "user", content |-> message],
           [role |-> "assistant", content |-> response]>>

\* Update of the conversation history at the end of a turn that did not
\* raise: the user message if it is not empty, then the response if it is
\* not empty
AppendTurn(h, message, response) ==
    h \o (IF message # <<>> THEN <<HistoryEntry("user", message)>> ELSE <<>>)
      \o (IF response # "" THEN <<HistoryEntry("assistant", response)>> ELSE <<>>)

\* workout_chat, from the dispatch on: the handler's outcome, the history
\* update and the response.  p0 is the pending context at the start of the
\* request and p2 the one the handler finds.
Respond(conv, message, p0, p1, chosen0, resumed, intent, context, p2, out) ==
    \E history \in {IF out.raised THEN out.history
                    ELSE AppendTurn(out.history, message, out.response)} :
        /\ pending_swap_context' = out.pending
        /\ conversation_history' = history
        /\ pending_owner' = IF out.pending = NoPending THEN "none"
                            ELSE IF out.branch = "proposed" THEN conv
                            ELSE pending_owner
        /\ last' = [conv |-> conv, message |-> message,
                    had_pending |-> IsPendingSwap(p0),
                    owner_before |-> pending_owner,
                    router_cleared |-> (IsPendingSwap(p0) /\ p1 = NoPending),
                    classified |-> ~resumed, resolved |-> ~resumed,
                    cleared_unrelated |-> (p1 # NoPending /\ p2 = NoPending),
                    intent |-> intent, context |-> context,
                    reported_intent |-> IF out.raised THEN "none"
                                        ELSE IF out.branch = "fallback" THEN "UNKNOWN"
                                        ELSE intent,
                    chosen |-> IF resumed THEN chosen0
                               ELSE context.chosen_alternative_title,
                    handler_saw_pending |-> IsPendingSwap(p2),
                    branch |-> out.branch, writes |-> out.writes,
                    completions |-> out.completions,
                    response |-> out.response, raised |-> out.raised]
        /\ UNCHANGED cached_templates

\* workout_chat with a pending context and a choice found in the message: the
\* turn is handled as SUGGESTION_IMPLEMENT, classifier and resolver are skipped.
\* c1 and c2 are the outcomes of the handler's completion calls, w whether
\* the routine write succeeds.
ResumePending(conv, message, p0, chosen0) ==
    \E c1 \in CompletionOutcomes :
    \E c2 \in (IF c1 = "error" THEN CompletionOutcomes ELSE {"text"}) :
    \E w \in BOOLEAN :
    \E context \in {[routine_id |-> p0.routine_id,
                     exercise_to_swap_title |-> p0.exercise_to_swap_title,
                     routine_name |-> p0.routine_name,
                     chosen_alternative_title |-> chosen0]} :
    \E out \in {Dispatch(p0, conversation_history, message, "SUGGESTION_IMPLEMENT",
                         context, cached_templates.list, c1, c2, w)} :
        Respond(conv, message, p0, p0, chosen0, TRUE, "SUGGESTION_IMPLEMENT", context,
                p0, out)

\* workout_chat in the normal classification flow; p1 is the pending context
\* after the router's pending check.  intent is what classify_intent returns
\* and routines what the routine fetch of the resolver returns.
ClassifyAndRoute(conv, message, p0, p1) ==
    \E intent \in ClassifiedIntents :
    \E routines \in (IF intent = "EXERCISE_SWAP" THEN RemoteRoutineLists ELSE {<<>>}) :
    \E context \in {get_relevant_context(intent, message, routines)} :
    \E p2 \in {ClearOnUnrelatedIntent(p1, intent)} :
    \E c1 \in (IF intent \in {"GREETING", "UNKNOWN"} THEN {"text"} ELSE CompletionOutcomes) :
    \E out \in {Dispatch(p2, conversation_history, message, intent, context,
                         cached_templates.list, c1, "text", TRUE)} :
        Respond(conv, message, p0, p1, NoName, FALSE, intent, context, p2, out)

\* A request that goes to classification without the pending check
workout_chat_unchecked(conv, message) ==
    ClassifyAndRoute(conv, message, pending_swap_context, pending_swap_context)

\* workout_chat: the whole request
workout_chat(conv, message) ==
    \E p0 \in {pending_swap_context} :
    \E chosen0 \in {IF IsPendingSwap(p0)
                    THEN ChosenAlternative(p0.suggestions, message) ELSE NoName} :
        IF IsPendingSwap(p0) /\ chosen0 # NoName
        THEN ResumePending(conv, message, p0, chosen0)
        ELSE ClassifyAndRoute(conv, message, p0, RouterPendingCheck(p0, message))

(***************************************************************************)
(* Actions                                                                 *)
(***************************************************************************)

\* main.py lifespan: the cache is loaded before the first request is served
Lifespan ==
    /\ ~cached_templates.loaded
    /\ \E fetched \in TemplateCatalogues :
          cached_templates' = load_templates_cache(cached_templates, fetched)
    /\ UNCHANGED <<pending_swap_context, conversation_history, pending_owner, last,
                   inflight, remote, call>>

\* POST /api/chat/ sent by conversation conv, handled without another request
\* running between its steps
WorkoutChat(conv, message) ==
    /\ cached_templates.loaded
    /\ workout_chat(conv, message)
    /\ call' = NoCall
    /\ UNCHANGED <<inflight, remote>>

\* POST /api/chat/ up to the await of classify_intent (chat.py 79): the
\* pending check has run, the request is suspended while the completion
\* endpoint is awaited and the event loop serves other requests
BeginTurn(r, message) ==
    /\ cached_templates.loaded
    /\ ~inflight[r].suspended
    /\ \A q \in Requests : q < r => inflight[q].suspended
    /\ \E p0 \in {pending_swap_context} :
       \E p1 \in {RouterPendingCheck(p0, message)} :
          /\ ~(IsPendingSwap(p0) /\ ChosenAlternative(p0.suggestions, message) # NoName)
          /\ pending_swap_context' = p1
          /\ pending_owner' = IF p1 = NoPending THEN "none" ELSE pending_owner
          /\ inflight' = [inflight EXCEPT ![r] =
                             [message |-> message, p0 |-> p0, p1 |-> p1,
                              history |-> conversation_history, suspended |-> TRUE]]
    /\ UNCHANGED <<cached_templates, conversation_history, last, remote, call>>

\* The rest of a suspended request, from the return of classify_intent on;
\* the check of line 82 and the handler read the pending context and the
\* history as they are now
FinishTurn(r) ==
    /\ inflight[r].suspended
    /\ ClassifyAndRoute("A", inflight[r].message, inflight[r].p0, pending_swap_context)
    /\ inflight' = [inflight EXCEPT ![r] = Idle]
    /\ call' = NoCall
    /\ UNCHANGED remote

\* DELETE /api/chat/history
ClearChatHistory ==
    /\ conversation_history # <<>>
    /\ conversation_history' = <<>>
    /\ call' = NoCall
    /\ UNCHANGED <<cached_templates, pending_swap_context, pending_owner, last,
                   inflight, remote>>

\* A getter that hands out the stored list itself
get_conversation_history_uncopied(history) ==
    [list |-> history, aliased |-> TRUE]

\* get_conversation_history: a copy of the stored list, a list object of
\* its own with the same entries
get_conversation_history(history) ==
    [list |-> history, aliased |-> FALSE]

\* GET /api/chat/history: returned is the list as the caller holds it, fresh
\* the list as it was returned
GetChatHistory ==
    /\ \E got \in {get_conversation_history(conversation_history)} :
          call' = [op |-> "get_chat_history", returned |-> got.list, fresh |-> got.list,
                   aliased |-> got.aliased, modified |-> FALSE]
    /\ UNCHANGED <<cached_templates, pending_swap_context, conversation_history,
                   pending_owner, last, inflight, remote>>

\* The caller of get_conversation_history changes the list it got: it
\* appends an entry or removes the first one.  A list that is the stored
\* list itself changes the stored history with it.
ModifyReturned ==
    /\ call.op = "get_chat_history"
    /\ ~call.modified
    /\ \E changed \in {Append(call.returned, [role |-> "user", content |-> "edited"])}
                     \cup (IF call.returned # <<>> THEN {Tail(call.returned)} ELSE {}) :
          /\ call' = [call EXCEPT !.returned = changed, !.modified = TRUE]
          /\ conversation_history' = IF call.aliased THEN changed ELSE conversation_history
    /\ UNCHANGED <<cached_templates, pending_swap_context, pending_owner, last,
                   inflight, remote>>

\* Locations of exported histories
Filepaths == {"a.json", "b.json"}

\* Methods that AIWorkoutOptimizer defines for the conversation history
HistoryMethods == {"clear_conversation_history", "get_conversation_history"}

\* POST /api/chat/save: the endpoint calls save_conversation_history on the
\* optimizer; the attribute lookup of a method the class does not define
\* raises, and the endpoint answers HTTP 500
SaveChatHistory(filepath) ==
    /\ call' = [op |-> "save_chat_history", filepath |-> filepath,
                history |-> conversation_history,
                status |-> IF "save_conversation_history" \in HistoryMethods
                           THEN "success" ELSE "500"]
    /\ UNCHANGED <<cached_templates, pending_swap_context, conversation_history,
                   pending_owner, last, inflight, remote>>

\* POST /api/chat/load: as for save; the error is not FileNotFoundError, so
\* the answer is HTTP 500 and the history stays as it is
LoadChatHistory(filepath) ==
    /\ call' = [op |-> "load_chat_history", filepath |-> filepath,
                history |-> conversation_history,
                status |-> IF "load_conversation_history" \in HistoryMethods
                           THEN "success" ELSE "500"]
    /\ UNCHANGED <<cached_templates, pending_swap_context, conversation_history,
                   pending_owner, last, inflight, remote>>

\* One conversation talks to the process
Next ==
    \/ Lifespan
    \/ \E message \in Messages :
          Len(conversation_history) <= MaxHistory /\ WorkoutChat("A", message)
    \/ ClearChatHistory

Spec == Init /\ [][Next]_vars

\* Messages of the two-conversation specification
SharedMessages ==
    { <<"In", "my", "Push", "Day", ",", "swap", "Bench", "Press">>,
      <<"use", "Incline", "Press">>,
      <<"what's", "the", "weather">> }

\* Two conversations talk to the same process
NextShared ==
    \/ Lifespan
    \/ \E conv \in Conversations, message \in SharedMessages :
          Len(conversation_history) <= MaxHistory /\ WorkoutChat(conv, message)
    \/ ClearChatHistory

SpecShared == Init /\ [][NextShared]_vars

\* One conversation sends a message before the previous one is answered
NextInterleaved ==
    \/ \E message \in SharedMessages :
          Len(conversation_history) <= MaxHistory /\ WorkoutChat("A", message)
    \/ \E r \in Requests, message \in SharedMessages :
          Len(conversation_history) <= MaxHistory /\ BeginTurn(r, message)
    \/ \E r \in Requests :
          Len(conversation_history) <= MaxHistory /\ FinishTurn(r)
    \/ ClearChatHistory

\* The process once the lifespan has loaded the cache
InitServing ==
    /\ InitChat
    /\ \E fetched \in TemplateCatalogues :
          /\ Len(fetched) = 3
          /\ cached_templates = load_templates_cache(NotLoaded, fetched)
    /\ remote = NoRemote

SpecInterleaved == InitServing /\ [][NextInterleaved]_vars

\* A step taken by a chat request (Lifespan changes the cache, ClearChatHistory
\* shortens the history)
ChatStep ==
    /\ cached_templates' = cached_templates
    /\ Len(conversation_history') >= Len(conversation_history)
    /\ call' = NoCall
    /\ UNCHANGED <<inflight, remote>>

\* Longest conversation history a turn of the history specification starts from
MaxPriorHistory == 2

\* Messages of the history specification
HistoryMessages ==
    { <<"what's", "the", "weather">>, <<>> }

\* One conversation that goes on over several turns, and the history endpoints
NextHistory ==
    \/ \E message \in HistoryMessages :
          Len(conversation_history) <= MaxPriorHistory /\ WorkoutChat("A", message)
    \/ ClearChatHistory
    \/ GetChatHistory
    \/ ModifyReturned
    \/ \E filepath \in Filepaths : SaveChatHistory(filepath)
    \/ \E filepath \in Filepaths : LoadChatHistory(filepath)

SpecHistory == InitServing /\ [][NextHistory]_vars

(***************************************************************************)
(* services/intent_service.py: get_ai_response and classify_intent         *)
(***************************************************************************)

\* Keys of IntentService.intents in the order of the dictionary
IntentKeyOrder ==
    << "WORKOUT_INFO", "EXERCISE_INFO", "ROUTINE_INFO", "PROGRAM_INFO", "GENERAL_INFO",
       "WORKOUT_ANALYSIS", "PROGRAM_ANALYSIS", "EXERCISE_ANALYSIS", "COMPARATIVE_ANALYSIS",
       "EXERCISE_SWAP", "PROGRAM_CREATE", "ROUTINE_UPDATE", "SUGGESTION_IMPLEMENT",
       "UNKNOWN", "GREETING" >>

\* A completion text is a sequence of tokens written one after the other: a
\* word, bare or in double or single quotes, a backtick, or white space
Word(w, quote) == [text |-> w, quote |-> quote]

Backtick == Word("backtick", "none")

Space == Word(" ", "none")

IsBareWord(t) == t.quote = "none" /\ t # Backtick /\ t # Space

\* Longest completion text, in tokens
MaxResponseLen == 3

\* Words of a completion text: two catalog keys and a word that is no key
ResponseWords == {"WORKOUT_INFO", "GREETING", "NOT_A_KEY"}

ResponseTokens ==
    {Backtick, Space} \cup {Word(w, q) : w \in ResponseWords, q \in {"none", "double", "single"}}

ResponseTexts ==
    UNION {[1..n -> ResponseTokens] : n \in 0..MaxResponseLen}

\* str.strip(chars): the text without its leading and trailing tokens c
Strip(t, c) ==
    LET keep == {i \in 1..Len(t) : t[i] # c}
    IN  IF keep = {} THEN <<>>
        ELSE SubSeq(t, CHOOSE i \in keep : \A j \in keep : i <= j,
                       CHOOSE i \in keep : \A j \in keep : i >= j)

\* What the completion endpoint does with the classification prompt: the API
\* key is set or not, the call raises, returns a message without content, or
\* returns a text
CompletionEndpoints ==
    {[kind |-> "completion", api_key |-> FALSE, outcome |-> "text", content |-> <<>>],
     [kind |-> "completion", api_key |-> TRUE, outcome |-> "error", content |-> <<>>],
     [kind |-> "completion", api_key |-> TRUE, outcome |-> "no_content", content |-> <<>>]}
    \cup {[kind |-> "completion", api_key |-> TRUE, outcome |-> "text", content |-> t] :
             t \in ResponseTexts}

\* A completion call whose errors are not caught
get_ai_response_uncaught(endpoint) ==
    IF ~endpoint.api_key
    THEN [raised |-> FALSE,
          text |-> <<Word("Configuration Error: Missing OpenAI API Key.", "none")>>]
    ELSE IF endpoint.outcome # "text"
    THEN [raised |-> TRUE, text |-> <<>>]
    ELSE [raised |-> FALSE, text |-> Strip(Strip(endpoint.content, Space), Backtick)]

\* get_ai_response: a fixed text without an API key, ERROR_AI_CALL when the
\* call or the clean-up of its content raises, else the content stripped of
\* white space and then of backticks
get_ai_response(endpoint) ==
    IF ~endpoint.api_key
    THEN [raised |-> FALSE,
          text |-> <<Word("Configuration Error: Missing OpenAI API Key.", "none")>>]
    ELSE IF endpoint.outcome # "text"
    THEN [raised |-> FALSE, text |-> <<Word("ERROR_AI_CALL", "none")>>]
    ELSE [raised |-> FALSE, text |-> Strip(Strip(endpoint.content, Space), Backtick)]

\* The key in double or single quotes occurs in the response, or the response
\* without surrounding white space is the key
QuotedOrExact(key, response) ==
    \/ \E i \in 1..Len(response) :
          response[i].text = key /\ response[i].quote \in {"double", "single"}
    \/ Strip(response, Space) = <<Word(key, "none")>>

\* The word-boundary search: the key stands as a word of its own;
\* bare words written one after the other form one longer word
WordMatch(key, response) ==
    \E i \in 1..Len(response) :
        /\ response[i].text = key
        /\ \/ response[i].quote # "none"
           \/ /\ (i > 1 => ~IsBareWord(response[i - 1]))
              /\ (i < Len(response) => ~IsBareWord(response[i + 1]))

\* A loop that goes on after a quoted or exact match as after a word match
RECURSIVE ExtractKeyLastMatch(_, _, _)
ExtractKeyLastMatch(i, cleaned, response) ==
    IF i > Len(IntentKeyOrder) THEN cleaned
    ELSE IF \/ QuotedOrExact(IntentKeyOrder[i], response)
            \/ WordMatch(IntentKeyOrder[i], response)
         THEN ExtractKeyLastMatch(i + 1, IntentKeyOrder[i], response)
         ELSE ExtractKeyLastMatch(i + 1, cleaned, response)

\* The loop over the catalog keys from key number i on: a quoted or exact
\* match ends it, a word match is kept while the loop goes on
RECURSIVE ExtractKey(_, _, _)
ExtractKey(i, cleaned, response) ==
    IF i > Len(IntentKeyOrder) THEN cleaned
    ELSE IF QuotedOrExact(IntentKeyOrder[i], response) THEN IntentKeyOrder[i]
    ELSE IF WordMatch(IntentKeyOrder[i], response)
         THEN ExtractKey(i + 1, IntentKeyOrder[i], response)
         ELSE ExtractKey(i + 1, cleaned, response)

\* classify_intent: the key extracted from the completion text, UNKNOWN when
\* there is none
classify_intent(message, history, endpoint) ==
    LET response == get_ai_response(endpoint)
    IN  IF response.raised THEN [raised |-> TRUE, intent |-> "none"]
        ELSE [raised |-> FALSE, intent |-> ExtractKey(1, "UNKNOWN", response.text)]

\* A call of classify_intent
ClassifyIntent(message) ==
    /\ remote.kind = "completion"
    /\ call' = [op |-> "classify_intent", message |-> message,
                result |-> classify_intent(message, conversation_history, remote)]
    /\ UNCHANGED <<cached_templates, pending_swap_context, conversation_history,
                   pending_owner, last, inflight, remote>>

InitClassifier ==
    /\ InitChat
    /\ cached_templates = NotLoaded
    /\ remote \in CompletionEndpoints

NextClassifier ==
    \E message \in HistoryMessages : ClassifyIntent(message)

SpecClassifier == InitClassifier /\ [][NextClassifier]_vars

\* A call of get_relevant_context
GetRelevantContext(intent, message) ==
    /\ remote.kind = "hevy"
    /\ call' = [op |-> "get_relevant_context", intent |-> intent, message |-> message,
                result |-> RelevantContext(intent, message, remote)]
    /\ UNCHANGED <<cached_templates, pending_swap_context, conversation_history,
                   pending_owner, last, inflight, remote>>

InitResolver ==
    /\ InitChat
    /\ cached_templates = NotLoaded
    /\ remote \in HevyAccounts

NextResolver ==
    \E intent \in IntentKeys, message \in ResolverMessages :
        GetRelevantContext(intent, message)

SpecResolver == InitResolver /\ [][NextResolver]_vars

(***************************************************************************)
(* services/hevy_api.py and services/workout_optimizer.py                  *)
(***************************************************************************)

\* Workouts of the account; start_time stands for an ISO date inside the
\* analysed period, one before it, and a text that is no ISO date
Workouts ==
    {[id |-> "w1", start_time |-> "recent"],
     [id |-> "w2", start_time |-> "old"],
     [id |-> "w3", start_time |-> "malformed"]}

\* Most pages of workouts the remote API holds
MaxPages == 2

\* Most workouts on one page
MaxPageLen == 2

WorkoutPages == UNION {[1..n -> Workouts] : n \in 1..MaxPageLen}

\* The remote API: whether it accepts the requests, and its pages of workouts
ApiAccounts ==
    [kind : {"api"}, ok : BOOLEAN,
     pages : UNION {[1..k -> WorkoutPages] : k \in 0..MaxPages}]

\* dict.get(key, default)
Get(d, key, default) == IF key \in DOMAIN d THEN d[key] ELSE default

\* The body of the remote answer to GET /workouts for one page
WorkoutsBody(api, page) ==
    [workouts |-> IF page \in 1..Len(api.pages) THEN api.pages[page] ELSE <<>>,
     page |-> page,
     page_count |-> Len(api.pages)]

\* The exception of a request that does not return
Raised(error) == [raised |-> TRUE, error |-> error, value |-> None]

Returned(value) == [raised |-> FALSE, error |-> "none", value |-> value]

\* get_workouts: the page in the standard format, with the keys data, total,
\* page, limit and has_more
get_workouts(api, limit, page) ==
    IF ~api.ok THEN Raised("requests.exceptions.HTTPError")
    ELSE LET data == WorkoutsBody(api, page)
         IN  Returned([data |-> FirstN(Get(data, "workouts", <<>>), limit),
                       total |-> Get(data, "total", Len(Get(data, "workouts", <<>>))),
                       page |-> Get(data, "page", page),
                       limit |-> limit,
                       has_more |-> page < Get(data, "page_count", 1)])

\* The loop of get_all_workouts from one page on: it reads the keys workouts
\* and page_count of what get_workouts returns
RECURSIVE AllWorkoutsFrom(_, _, _)
AllWorkoutsFrom(api, page, all_workouts) ==
    LET response == get_workouts(api, 100, page)
    IN  IF response.raised THEN response
        ELSE IF Get(response.value, "workouts", <<>>) = <<>>
        THEN Returned(all_workouts)
        ELSE IF page >= Get(response.value, "page_count", 1)
        THEN Returned(all_workouts \o Get(response.value, "workouts", <<>>))
        ELSE AllWorkoutsFrom(api, page + 1,
                             all_workouts \o Get(response.value, "workouts", <<>>))

get_all_workouts(api) == AllWorkoutsFrom(api, 1, <<>>)

\* The four getters of a single resource and the exception each of them
\* re-raises when raise_for_status rejects the answer: three use requests,
\* get_routine uses the httpx client
SingleGetters == {"get_workout", "get_routine", "get_exercise_template", "get_routine_folder"}

StatusError(getter) ==
    IF getter = "get_routine" THEN "httpx.HTTPStatusError"
    ELSE "requests.exceptions.HTTPError"

\* Resource ids of the calls: one the remote API knows, one it rejects
ResourceIds == {"known_id", "invalid_id"}

get_resource(api, getter, id) ==
    IF ~api.ok \/ id = "invalid_id" THEN Raised(StatusError(getter))
    ELSE Returned(id)

\* _analyze_workouts, as far as the number of workouts and the message go
analyze_workouts(workouts) ==
    IF workouts = <<>>
    THEN [total_workouts |-> 0, message |-> "No workout data available for analysis."]
    ELSE [total_workouts |-> Len(workouts), message |-> "Analyzed workouts"]

InPeriod(workout) == workout.start_time = "recent"

\* analyze_workout_history: the first page of workouts, filtered by date and
\* analysed; any exception gives the error result
analyze_workout_history(api) ==
    LET response == get_workouts(api, 100, 1)
    IN  IF response.raised
           \/ \E i \in 1..Len(Get(response.value, "data", <<>>)) :
                 Get(response.value, "data", <<>>)[i].start_time = "malformed"
        THEN Returned([total_workouts |-> 0,
                       message |-> "Error analyzing workout history"])
        ELSE Returned(analyze_workouts(SelectSeq(Get(response.value, "data", <<>>),
                                                 InPeriod)))

GetAllWorkouts ==
    /\ remote.kind = "api"
    /\ call' = [op |-> "get_all_workouts", result |-> get_all_workouts(remote)]
    /\ UNCHANGED <<cached_templates, pending_swap_context, conversation_history,
                   pending_owner, last, inflight, remote>>

GetResource(getter, id) ==
    /\ remote.kind = "api"
    /\ call' = [op |-> getter, id |-> id, result |-> get_resource(remote, getter, id)]
    /\ UNCHANGED <<cached_templates, pending_swap_context, conversation_history,
                   pending_owner, last, inflight, remote>>

AnalyzeWorkoutHistory ==
    /\ remote.kind = "api"
    /\ call' = [op |-> "analyze_workout_history", result |-> analyze_workout_history(remote)]
    /\ UNCHANGED <<cached_templates, pending_swap_context, conversation_history,
                   pending_owner, last, inflight, remote>>

InitHevy ==
    /\ InitChat
    /\ cached_templates = NotLoaded
    /\ remote \in ApiAccounts

NextHevy ==
    \/ GetAllWorkouts
    \/ \E getter \in SingleGetters, id \in ResourceIds : GetResource(getter, id)
    \/ AnalyzeWorkoutHistory

SpecHevy == InitHevy /\ [][NextHevy]_vars

(***************************************************************************)
(* Properties                                                              *)
(***************************************************************************)

\* The template cache as the handlers read it
Cache == cached_templates.list

\* Some stored suggestion's name occurs in the message, case-insensitively
NamesSuggestion(suggestions, message) ==
    \E k \in 1..Len(suggestions) :
        Contains(LowerSeq(message), LowerSeq(suggestions[k].name))

\* The message matches the selection-verb pattern
HasSelectionPhrase(message) == ChoiceIn[message] # NoName

\* What a handler returns when it returns the text of a completion
CompletionTexts == {CompletionText(c) : c \in CompletionOutcomes \ {"error"}}

\* The implement-phase failures that the handler answers by asking again
RecoverableBranches == {"implement_cache_empty", "title_not_found"}

\* The implement-phase failures that end the swap
TerminalBranches == {"missing_template_id", "stale_snapshot", "write_failed"}

\* C1: the pending swap context belongs to the conversation whose turn
\* created it: a turn of another conversation leaves it as it is and is not
\* handled as the confirmation of it.
C1_ScopedToConversation ==
    [][ (/\ ChatStep
         /\ IsPendingSwap(pending_swap_context)
         /\ last'.conv # pending_owner)
        => (/\ pending_swap_context' = pending_swap_context
            /\ pending_owner' = pending_owner
            /\ last'.classified
            /\ last'.writes = <<>>) ]_vars

TemplateOf(cache, exercise) ==
    cache[CHOOSE i \in 1..Len(cache) :
             /\ cache[i].title = exercise
             /\ \A j \in 1..(i - 1) : cache[j].title # exercise]

\* The exercise is in the cache with a non-null primary muscle group
KnownExercise(cache, exercise) ==
    /\ \E i \in 1..Len(cache) : cache[i].title = exercise
    /\ TemplateOf(cache, exercise).primary_muscle_group # None

\* The other cached templates of the exercise's muscle group, in cache order
Alternatives(cache, exercise) ==
    SelectSeq(cache,
              LAMBDA t : /\ t.primary_muscle_group =
                              TemplateOf(cache, exercise).primary_muscle_group
                         /\ t.title # exercise)

\* The first min(5, n) alternatives as suggestions
FirstFiveAlternatives(cache, exercise) ==
    LET alts == Alternatives(cache, exercise)
    IN  [k \in 1..(IF Len(alts) < 5 THEN Len(alts) ELSE 5) |->
            [name |-> alts[k].title, id |-> alts[k].id,
             muscles |-> alts[k].primary_muscle_group]]

\* The last turn ran the propose phase
ProposeTurn == last.intent = "EXERCISE_SWAP"

UseInclinePress == <<"use", "Incline", "Press">>

\* The replacement entry of the two-turn scenario
InclineEntry ==
    [title |-> InclinePress, notes |-> None,
     exercise_template_id |-> TemplateOf(Cache, InclinePress).id,
     superset_id |-> None,
     sets |-> << [type |-> "normal", weight_kg |-> None, reps |-> None],
                 [type |-> "normal", weight_kg |-> None, reps |-> None],
                 [type |-> "normal", weight_kg |-> None, reps |-> None] >>]

\* Turn 1 of the scenario: an answered swap request for Bench Press, with
\* Incline Press among the first five alternatives of the cache and a
\* resolved routine that contains Bench Press, leaves a pending context whose
\* suggestions include Incline Press
C3_Turn1 ==
    (/\ ProposeTurn
     /\ ~last.raised
     /\ last.context.exercise_name = BenchPress
     /\ KnownExercise(Cache, BenchPress)
     /\ \E k \in 1..Len(FirstFiveAlternatives(Cache, BenchPress)) :
           FirstFiveAlternatives(Cache, BenchPress)[k].name = InclinePress
     /\ last.context.target_routine_details # <<>>
     /\ \E i \in 1..Len(last.context.target_routine_details[1].exercises) :
           last.context.target_routine_details[1].exercises[i].title = BenchPress)
    => (/\ IsPendingSwap(pending_swap_context)
        /\ \E k \in 1..Len(pending_swap_context.suggestions) :
              pending_swap_context.suggestions[k].name = InclinePress)

\* Turn 2 of the scenario: "use Incline Press" sent while such a context is
\* pending issues one write under the stored routine id, in which every
\* Bench Press entry of the snapshot is replaced, and leaves no pending context
C3_Turn2 ==
    (/\ ChatStep
     /\ IsPendingSwap(pending_swap_context)
     /\ pending_swap_context.exercise_to_swap_title = BenchPress
     /\ pending_swap_context.routine_id # None
     /\ \E k \in 1..Len(pending_swap_context.suggestions) :
           /\ pending_swap_context.suggestions[k].name = InclinePress
           /\ pending_swap_context.suggestions[k].id # None
     /\ \E i \in 1..Len(pending_swap_context.current_exercises) :
           pending_swap_context.current_exercises[i].title = BenchPress
     /\ last'.message = UseInclinePress)
    => (/\ Len(last'.writes) = 1
        /\ last'.writes[1].routine_id = pending_swap_context.routine_id
        /\ Len(last'.writes[1].exercises) = Len(pending_swap_context.current_exercises)
        /\ \A i \in 1..Len(pending_swap_context.current_exercises) :
              IF pending_swap_context.current_exercises[i].title = BenchPress
              THEN last'.writes[1].exercises[i] = InclineEntry
              ELSE last'.writes[1].exercises[i].title =
                       pending_swap_context.current_exercises[i].title
        /\ pending_swap_context' = NoPending)

\* C3: the two-turn swap, end to end.  Turn 1 (a swap request for Bench Press
\* that is answered) creates a pending context whose suggestions include
\* Incline Press; turn 2 ("use Incline Press") issues exactly one routine
\* write, under the stored routine id, whose exercise list has Bench Press
\* replaced by an entry with Incline Press's template id and three empty
\* normal sets, and the pending context is None after turn 2.
C3_TwoTurnSwap == [][C3_Turn1' /\ C3_Turn2]_vars

\* Turn 2 was answered after a successful write that put Incline Press in
\* the place of Bench Press
C3_Witness ==
    /\ last.message = UseInclinePress
    /\ last.had_pending
    /\ last.branch = "swap_done"
    /\ ~last.raised
    /\ Len(last.writes) = 1
    /\ last.writes[1].routine_id = "r1"
    /\ last.writes[1].exercises[1] = InclineEntry
    /\ pending_swap_context = NoPending

\* The propose phase ran for an exercise that is in the cache with a
\* non-null muscle group and has at least one alternative
C4_Precondition ==
    /\ ProposeTurn
    /\ last.context.exercise_name # NoName
    /\ KnownExercise(Cache, last.context.exercise_name)
    /\ Len(Alternatives(Cache, last.context.exercise_name)) >= 1

\* C4 as stated: whenever the exercise to swap is in the cache with a non-null
\* primary muscle group and n >= 1 other cached templates share it, the
\* propose call ends with a pending context whose suggestions are the first
\* min(5, n) of them in cache order.
C4_AlwaysPendingSwap ==
    C4_Precondition
        => (/\ IsPendingSwap(pending_swap_context)
            /\ pending_swap_context.suggestions =
                   FirstFiveAlternatives(Cache, last.context.exercise_name))

\* C4, amended: under the same precondition the propose call ends with a
\* pending context whose suggestions are the first min(5, n) alternatives in
\* cache order, never including the exercise itself, if a target routine was
\* resolved and the completion call returned; without a resolved target
\* routine, or when the completion call raises, no pending context is stored.
C4_PendingSwapWhenRoutineResolved ==
    C4_Precondition
        => IF last.context.target_routine_details # <<>> /\ ~last.raised
           THEN /\ IsPendingSwap(pending_swap_context)
                /\ pending_swap_context.suggestions =
                       FirstFiveAlternatives(Cache, last.context.exercise_name)
                /\ \A k \in 1..Len(pending_swap_context.suggestions) :
                      pending_swap_context.suggestions[k].name
                          # last.context.exercise_name
           ELSE pending_swap_context = NoPending

\* A proposal with more than five alternatives stored exactly five
C4_Witness ==
    /\ C4_Precondition
    /\ Len(Alternatives(Cache, last.context.exercise_name)) > 5
    /\ IsPendingSwap(pending_swap_context)
    /\ Len(pending_swap_context.suggestions) = 5

\* The turn of this step is handled by the implement phase with the pending
\* context that was live before it
ImplementStep ==
    /\ ChatStep
    /\ IsPendingSwap(pending_swap_context)
    /\ last'.intent = "SUGGESTION_IMPLEMENT"
    /\ last'.handler_saw_pending

\* C5: in the implement phase, if no entry of the stored snapshot is titled
\* exercise_to_swap_title, no routine write is issued and the pending context
\* is None after the call.
C5_StaleSnapshotNoWrite ==
    [][ (/\ ImplementStep
         /\ \A i \in 1..Len(pending_swap_context.current_exercises) :
               pending_swap_context.current_exercises[i].title
                   # pending_swap_context.exercise_to_swap_title)
        => (/\ last'.writes = <<>>
            /\ pending_swap_context' = NoPending) ]_vars

\* The implement phase found the chosen template and then no entry to replace
C5_Witness ==
    /\ last.branch = "stale_snapshot"
    /\ last.had_pending
    /\ FindTemplate(Cache, last.chosen) # <<>>
    /\ last.writes = <<>>
    /\ pending_swap_context = NoPending

\* C6: after a terminal implement failure (chosen template without id, stale
\* snapshot, write raised) the pending context is None.
C6_TerminalFailureClearsPending ==
    (last.branch \in TerminalBranches)
        => (last.had_pending /\ pending_swap_context = NoPending)

\* The routine write was attempted and raised
C6_Witness ==
    /\ last.branch = "write_failed"
    /\ last.had_pending
    /\ Len(last.writes) = 1
    /\ pending_swap_context = NoPending

\* C7: with a pending context live, a message that contains a stored
\* suggestion's name (in any case) or matches the selection-verb pattern is
\* handled without classifier and resolver, as SUGGESTION_IMPLEMENT; when a
\* suggestion's name is contained, the chosen title is a stored suggestion
\* name contained in the message; and after a successful write the pending
\* context is None.
C7_ResumeOnMatch ==
    [][ (/\ ChatStep
         /\ IsPendingSwap(pending_swap_context)
         /\ \/ NamesSuggestion(pending_swap_context.suggestions, last'.message)
            \/ HasSelectionPhrase(last'.message))
        => (/\ ~last'.classified
            /\ ~last'.resolved
            /\ last'.intent = "SUGGESTION_IMPLEMENT"
            /\ last'.chosen # NoName
            /\ NamesSuggestion(pending_swap_context.suggestions, last'.message)
                  => \E k \in 1..Len(pending_swap_context.suggestions) :
                        /\ last'.chosen = pending_swap_context.suggestions[k].name
                        /\ Contains(LowerSeq(last'.message), LowerSeq(last'.chosen))
            /\ (last'.branch = "swap_done") => (pending_swap_context' = NoPending)) ]_vars

LetsGoWithHackSquat == <<"let's", "go", "with", "Hack", "Squat">>

\* "let's go with Hack Squat" resumed a pending swap, chose Hack Squat and
\* the write succeeded
C7_Witness ==
    /\ last.message = LetsGoWithHackSquat
    /\ last.had_pending
    /\ ~last.classified
    /\ last.intent = "SUGGESTION_IMPLEMENT"
    /\ last.chosen = HackSquat
    /\ last.branch = "swap_done"
    /\ pending_swap_context = NoPending

\* C8: with a pending context live, a message that contains no stored
\* suggestion's name and does not match the selection-verb pattern makes the
\* router clear the pending context before classification, the classifier is
\* invoked on that turn, and the handler sees no pending context.
C8_AbandonOnUnrelated ==
    [][ (/\ ChatStep
         /\ IsPendingSwap(pending_swap_context)
         /\ ~NamesSuggestion(pending_swap_context.suggestions, last'.message)
         /\ ~HasSelectionPhrase(last'.message))
        => (/\ last'.router_cleared
            /\ last'.classified
            /\ ~last'.handler_saw_pending) ]_vars

\* An unrelated message arrived while a swap was pending and was classified
\* as a confirmation
C8_Witness ==
    /\ last.had_pending
    /\ last.router_cleared
    /\ last.classified
    /\ last.intent = "SUGGESTION_IMPLEMENT"
    /\ ~last.handler_saw_pending

\* The propose phase ran and could not propose: no exercise name, empty
\* cache, exercise not in the cache, or no alternative
C9_ProposalFailure ==
    /\ ProposeTurn
    /\ \/ last.context.exercise_name = NoName
       \/ Cache = <<>>
       \/ ~KnownExercise(Cache, last.context.exercise_name)
       \/ Alternatives(Cache, last.context.exercise_name) = <<>>

C10_SingleSlotReplaced ==
    /\ pending_swap_context = NoPending \/ pending_swap_context.type = "EXERCISE_SWAP"
    /\ IsPendingSwap(pending_swap_context)
          => /\ ProposeTurn
             /\ last.context.target_routine_details # <<>>
             /\ pending_swap_context =
                    [type |-> "EXERCISE_SWAP",
                     routine_id |-> last.context.target_routine_details[1].id,
                     routine_name |-> last.context.target_routine_details[1].title,
                     exercise_to_swap_title |-> last.context.exercise_name,
                     suggestions |->
                         FirstFiveAlternatives(Cache, last.context.exercise_name),
                     current_exercises |->
                         last.context.target_routine_details[1].exercises]

\* A proposal was stored on a turn that began with another proposal pending
C10_Witness ==
    /\ ProposeTurn
    /\ last.had_pending
    /\ last.router_cleared
    /\ IsPendingSwap(pending_swap_context)
    /\ pending_swap_context.exercise_to_swap_title = last.context.exercise_name

\* The entries a turn adds at its end: the user entry holding the message
\* unless the message is empty, then the assistant entry holding the response
\* unless the response is empty
TurnEntries(message, response) ==
    (IF message = <<>> THEN <<>> ELSE <<[role |-> "user", content |-> message]>>)
    \o (IF response = "" THEN <<>> ELSE <<[role |-> "assistant", content |-> response]>>)

\* The history ends with the entries of a turn
EndsWithTurn(h, message, response) ==
    /\ Len(h) >= Len(TurnEntries(message, response))
    /\ SubSeq(h, Len(h) - Len(TurnEntries(message, response)) + 1, Len(h))
         = TurnEntries(message, response)

\* Something failed while the turn was handled: a completion call or the
\* routine write raised
FailureInTurn(l) ==
    \/ l.branch = "write_failed"
    \/ \E i \in 1..Len(l.completions) : l.completions[i] = "error"

\* The completion call that was to produce the turn's response raised, in a
\* handler that does not catch it
ResponseCallRaised(l) ==
    /\ l.completions # <<>>
    /\ l.completions[Len(l.completions)] = "error"
    /\ l.intent # "PROGRAM_ANALYSIS"

\* C11 as stated: every chat turn in which something fails still returns a
\* normal assistant response, which is appended to the history; no turn ends
\* by raising.
C11_FailuresStayInConversation ==
    [][ (ChatStep /\ FailureInTurn(last'))
        => (/\ ~last'.raised
            /\ last'.response # "none"
            /\ EndsWithTurn(conversation_history', last'.message, last'.response)) ]_vars

\* C11, amended: a failure is answered by a normal assistant response,
\* appended to the history, exactly when the handler catches it and the
\* completion call that produces the response returns (failed routine write,
\* failed completion call at an early return of the implement phase,
\* PROGRAM_ANALYSIS); when the completion call that produces the response
\* raises, the turn ends by raising (HTTP 500) and the history is left as it
\* was.
C11_FailuresAnsweredOrRaised ==
    [][ (ChatStep /\ FailureInTurn(last'))
        => IF ResponseCallRaised(last')
           THEN /\ last'.raised
                /\ last'.response = "none"
                /\ conversation_history' = conversation_history
           ELSE /\ ~last'.raised
                /\ last'.response # "none"
                /\ Len(conversation_history') > Len(conversation_history)
                /\ EndsWithTurn(conversation_history', last'.message,
                                last'.response) ]_vars

\* A routine write raised and the turn was answered with a completion
C11_Witness ==
    /\ last.branch = "write_failed"
    /\ ~last.raised
    /\ last.response = "completion"
    /\ EndsWithTurn(conversation_history, last.message, last.response)

\* C12: the steps of a chat turn never interleave with those of another turn:
\* while a turn is suspended between its pending check and its
\* classification, the pending context is the one its pending check left and
\* the history is the one it started from.
C12_TurnsDoNotInterleave ==
    \A r \in Requests :
        inflight[r].suspended
        => /\ pending_swap_context = inflight[r].p1
           /\ conversation_history = inflight[r].history

NoCatalogKey(content) ==
    \A i \in 1..Len(content) : content[i].text \notin IntentKeys

\* C14: classify_intent returns exactly one catalog key for every message and
\* every outcome of the completion call and never raises; a completion error,
\* a missing API key and a text without a catalog key all give UNKNOWN, and a
\* text that is just a catalog key gives that key.
C14_ClassifyTotal ==
    call.op = "classify_intent"
    => /\ ~call.result.raised
       /\ call.result.intent \in IntentKeys
       /\ (~remote.api_key \/ remote.outcome # "text" \/ NoCatalogKey(remote.content)
           => call.result.intent = "UNKNOWN")
       /\ \A key \in IntentKeys :
             remote.api_key /\ remote.outcome = "text" /\ remote.content = <<Word(key, "none")>>
             => call.result.intent = key

\* The completion call raised and the message was classified UNKNOWN
C14_Witness ==
    /\ call.op = "classify_intent"
    /\ remote.api_key
    /\ remote.outcome = "error"
    /\ call.result = [raised |-> FALSE, intent |-> "UNKNOWN"]

\* C15: get_relevant_context never raises, for every intent, and what it
\* gathered before a fetch failed is in the mapping it returns: for
\* EXERCISE_SWAP and ROUTINE_UPDATE the extracted exercise name is there
\* whether the routine requests succeed or fail, the list of all routines is
\* there, and the folders are there exactly when their fetch succeeded.
C15_ResolverKeepsPartialContext ==
    call.op = "get_relevant_context"
    => /\ ~call.result.raised
       /\ (call.intent \in {"EXERCISE_SWAP", "ROUTINE_UPDATE"}
           => /\ ("exercise_name" \in call.result.keys
                    <=> extract_exercise_name(call.message) # NoName)
              /\ call.result.exercise_name = extract_exercise_name(call.message)
              /\ "all_routines" \in call.result.keys
              /\ ("routine_folders" \in call.result.keys <=> remote.folders_ok))
       /\ (call.intent \notin {"EXERCISE_SWAP", "ROUTINE_UPDATE"}
           => "exercise_name" \notin call.result.keys)

\* The routine requests and the folder request failed and the exercise name
\* is in the returned context
C15_Witness ==
    /\ call.op = "get_relevant_context"
    /\ call.intent = "EXERCISE_SWAP"
    /\ ~remote.routines_ok
    /\ ~remote.folders_ok
    /\ call.result.exercise_name = <<"Bench", "Press">>
    /\ call.result.keys = {"exercise_name", "all_routines"}
    /\ ~call.result.raised

\* C16: exporting the history to a location succeeds, and importing from
\* that location right afterwards succeeds and restores the history to the
\* list that was exported.
C16_ExportImportRoundTrip ==
    [][ /\ (call'.op = "save_chat_history" => call'.status = "success")
        /\ (call.op = "save_chat_history" /\ call'.op = "load_chat_history"
              /\ call'.filepath = call.filepath
            => /\ call'.status = "success"
               /\ conversation_history' = call.history) ]_vars

\* A call of GET /api/chat/history
GetStep == call'.op = "get_chat_history" /\ ~call'.modified

\* The caller changes the list that GET /api/chat/history returned
ModifyStep == call'.op = "get_chat_history" /\ call'.modified

\* C20: reading the history changes neither the history nor the pending
\* context and returns the stored list of turns; two reads with no chat turn
\* in between return the same list, also when the caller changed the list it
\* got from the first; and changing a returned list leaves the stored
\* history as it is.
C20_GetHistoryPureRead ==
    [][ /\ (GetStep
            => /\ UNCHANGED <<conversation_history, pending_swap_context>>
               /\ call'.fresh = conversation_history
               /\ (call.op = "get_chat_history" => call'.fresh = call.fresh))
        /\ (ModifyStep
            => /\ UNCHANGED <<conversation_history, pending_swap_context>>
               /\ call'.returned # conversation_history') ]_vars

\* The history was read after a turn, and the caller changed the list it got
C20_Witness ==
    /\ call.op = "get_chat_history"
    /\ call.modified
    /\ Len(call.fresh) >= 2
    /\ call.fresh = conversation_history
    /\ call.returned # call.fresh

\* The workouts of all pages of the account, in page order
RECURSIVE Concatenation(_)
Concatenation(pages) ==
    IF pages = <<>> THEN <<>> ELSE Head(pages) \o Concatenation(Tail(pages))

\* C17: get_all_workouts returns the workouts of pages 1..k of the account,
\* concatenated in page order, none missing and none twice.
C17_AllWorkoutsFollowsPagination ==
    (call.op = "get_all_workouts" /\ remote.ok)
    => /\ ~call.result.raised
       /\ call.result.value = Concatenation(remote.pages)

\* C18: each of get_workout, get_routine, get_exercise_template and
\* get_routine_folder, called with an id the remote API rejects, returns no
\* value and raises the HTTPError of the requests library.
C18_RejectedFetchRaisesHTTPError ==
    (call.op \in SingleGetters /\ call.id = "invalid_id")
    => /\ call.result.raised
       /\ call.result.value = None
       /\ call.result.error = "requests.exceptions.HTTPError"

\* C19: whenever analyze_workout_history reports total_workouts = 0 it
\* returns, without raising, a result whose message contains "No workout
\* data available".
C19_NoWorkoutsMessage ==
    (call.op = "analyze_workout_history" /\ ~call.result.raised
       /\ call.result.value.total_workouts = 0)
    => call.result.value.message = "No workout data available for analysis."

(***************************************************************************)
(* The modification handler called on its own                              *)
(***************************************************************************)

\* The contexts the slot can hold while the cache holds this list: None, or
\* what a propose phase stored for a routine of the account and an exercise
\* named in the request
PendingContexts(cache) ==
    {NoPending} \cup
    {ProposeSwap(NoPending, <<>>, Context(exercise, <<routine>>, NoName), cache, "text").pending :
        routine \in UNION {{routines[i] : i \in 1..Len(routines)} :
                               routines \in RemoteRoutineLists},
        exercise \in {BenchPress, InclinePress, Squat, LegPress}}

\* Messages the handler is called with
HandlerMessages ==
    { <<"use", "Incline", "Press">>,
      <<"Hack", "Squat">>,
      <<"hack", "squat">>,
      <<"use", "Cable", "Crossover">>,
      <<"use", "the", "first", "one">>,
      <<"what's", "the", "weather">>,
      <<>> }

\* A call of get_modification_response with the slot and the history as they
\* are.  c1 and c2 are the outcomes of its completion calls, w whether the
\* routine write succeeds; without a pending context there is one completion
\* call and no write.  chosen is the chosen_alternative_title it resolves.
GetModificationResponse(message, intent) ==
    /\ cached_templates.loaded
    /\ \E c1 \in CompletionOutcomes :
       \E c2 \in (IF c1 = "error" /\ IsPendingSwap(pending_swap_context)
                  THEN CompletionOutcomes ELSE {"text"}) :
       \E w \in (IF IsPendingSwap(pending_swap_context) THEN BOOLEAN ELSE {TRUE}) :
       \E context \in {Context(NoName, <<>>, ExtractChoice(message))} :
       \E out \in {get_modification_response(pending_swap_context, conversation_history,
                                             message, intent, context,
                                             cached_templates.list, c1, c2, w)} :
          /\ pending_swap_context' = out.pending
          /\ conversation_history' = out.history
          /\ pending_owner' = IF out.pending = NoPending THEN "none" ELSE pending_owner
          /\ call' = [op |-> "get_modification_response", message |-> message,
                      intent |-> intent, pending |-> pending_swap_context,
                      history |-> conversation_history,
                      chosen |-> IF IsPendingSwap(pending_swap_context)
                                 THEN ChosenAlternative(pending_swap_context.suggestions,
                                                        message)
                                 ELSE NoName,
                      c1 |-> c1, c2 |-> c2, w |-> w, out |-> out]
    /\ UNCHANGED <<cached_templates, last, inflight, remote>>

\* The process once the cache is loaded, with whatever the slot can hold
InitHandler ==
    /\ \E fetched \in TemplateCatalogues :
          cached_templates = load_templates_cache(NotLoaded, fetched)
    /\ pending_swap_context \in PendingContexts(cached_templates.list)
    /\ pending_owner = IF pending_swap_context = NoPending THEN "none" ELSE "A"
    /\ conversation_history = <<>>
    /\ last = NoRequest
    /\ inflight = [r \in Requests |-> Idle]
    /\ remote = NoRemote
    /\ call = NoCall

NextHandler ==
    \E message \in HandlerMessages :
        /\ Len(conversation_history) <= MaxPriorHistory
        /\ GetModificationResponse(message, "SUGGESTION_IMPLEMENT")

SpecHandler == InitHandler /\ [][NextHandler]_vars

\* The handler was called for SUGGESTION_IMPLEMENT
ImplementCall ==
    call.op = "get_modification_response" /\ call.intent = "SUGGESTION_IMPLEMENT"

\* The implement phase was called with a live context and a message that
\* contains no stored suggestion name and no selection phrase
UnresolvableChoice ==
    /\ ImplementCall
    /\ IsPendingSwap(call.pending)
    /\ ~NamesSuggestion(call.pending.suggestions, call.message)
    /\ ExtractChoice(call.message) = NoName

\* C21 as stated: called with intent SUGGESTION_IMPLEMENT, a live pending
\* context and a message with no stored suggestion name and no selection
\* phrase, the handler returns a clarification request, issues no routine
\* write and leaves the pending context as it was.
C21_ClarificationReturned ==
    UnresolvableChoice
        => (/\ ~call.out.raised
            /\ call.out.response \in CompletionTexts
            /\ call.out.writes = <<>>
            /\ pending_swap_context = call.pending)

\* C21, amended: in that case the handler issues no routine write and leaves
\* the pending context live and as it was; it returns the completion of its
\* clarification prompt when the completion call returns and raises when the
\* completion call raises.
C21_ProposalKeptOnClarification ==
    UnresolvableChoice
        => (/\ call.out.branch = "clarification"
            /\ call.out.writes = <<>>
            /\ pending_swap_context = call.pending
            /\ IsPendingSwap(pending_swap_context)
            /\ IF call.c1 = "error"
               THEN call.out.raised /\ call.out.response = "none"
               ELSE ~call.out.raised /\ call.out.response = CompletionText(call.c1))

\* The handler asked again for a choice and the proposal is still pending
C21_Witness ==
    /\ UnresolvableChoice
    /\ call.message = <<"what's", "the", "weather">>
    /\ ~call.out.raised
    /\ call.out.response = "completion"
    /\ IsPendingSwap(pending_swap_context)
    /\ pending_swap_context = call.pending

\* The implement phase was called without a live context
ImplementWithoutProposal == ImplementCall /\ ~IsPendingSwap(call.pending)

\* What the call would have done had the cache held another list
SameCallWithCache(cache) ==
    get_modification_response(call.pending, call.history, call.message, call.intent,
                              Context(NoName, <<>>, ExtractChoice(call.message)),
                              cache, call.c1, call.c2, call.w)

\* C22 as stated: called with intent SUGGESTION_IMPLEMENT and no live pending
\* context, the handler returns an explanatory message, issues no routine
\* write, reads nothing from the template cache, and no context is pending
\* afterwards.
C22_ExplanationReturned ==
    ImplementWithoutProposal
        => (/\ ~call.out.raised
            /\ call.out.response \in CompletionTexts
            /\ call.out.writes = <<>>
            /\ \A fetched \in TemplateCatalogues : SameCallWithCache(fetched) = call.out
            /\ pending_swap_context = NoPending)

\* C22, amended: in that case the handler issues no routine write, what it
\* does is the same whatever the template cache holds, and no context is
\* pending afterwards; it returns the completion of its explanatory prompt
\* when the completion call returns and raises when the completion call
\* raises.
C22_NoProposalNoMutation ==
    ImplementWithoutProposal
        => (/\ call.out.branch = "no_pending_swap"
            /\ call.out.writes = <<>>
            /\ \A fetched \in TemplateCatalogues : SameCallWithCache(fetched) = call.out
            /\ pending_swap_context = NoPending
            /\ IF call.c1 = "error"
               THEN call.out.raised /\ call.out.response = "none"
               ELSE ~call.out.raised /\ call.out.response = CompletionText(call.c1))

\* A choice was sent with nothing pending and an empty cache, and answered
C22_Witness ==
    /\ ImplementWithoutProposal
    /\ call.message = <<"use", "Incline", "Press">>
    /\ Cache = <<>>
    /\ ~call.out.raised
    /\ call.out.response = "completion"
    /\ pending_swap_context = NoPending

\* The implement phase ended with a successful routine write, for a snapshot
\* with exactly one entry titled like the exercise to swap
SuccessfulSwapOfOneEntry ==
    /\ ImplementCall
    /\ IsPendingSwap(call.pending)
    /\ call.out.branch = "swap_done"
    /\ Cardinality({i \in 1..Len(call.pending.current_exercises) :
                       call.pending.current_exercises[i].title
                           = call.pending.exercise_to_swap_title}) = 1

\* C23: for a snapshot with exactly one entry titled exercise_to_swap_title,
\* a successful implement phase issues exactly one routine write, under the
\* stored routine id and title, whose exercise list has the length and order
\* of the snapshot: the matching position holds a new entry with the chosen
\* title, the id of the cached template of that title and three sets of type
\* normal without weight and reps; every other position holds the snapshot
\* entry without its index field and otherwise unchanged.
C23_ShapeOfWrite ==
    SuccessfulSwapOfOneEntry
        => LET snapshot == call.pending.current_exercises
               chosen == IF NamesSuggestion(call.pending.suggestions, call.message)
                         THEN MatchSuggestion(call.pending.suggestions, call.message)
                         ELSE ExtractChoice(call.message)
           IN  /\ Len(call.out.writes) = 1
               /\ call.out.writes[1].routine_id = call.pending.routine_id
               /\ call.out.writes[1].title = call.pending.routine_name
               /\ Len(call.out.writes[1].exercises) = Len(snapshot)
               /\ \A i \in 1..Len(snapshot) :
                     LET e == call.out.writes[1].exercises[i]
                     IN  IF snapshot[i].title = call.pending.exercise_to_swap_title
                         THEN /\ e.title = chosen
                              /\ e.exercise_template_id = TemplateOf(Cache, chosen).id
                              /\ e.exercise_template_id # None
                              /\ e.sets = << [type |-> "normal", weight_kg |-> None,
                                              reps |-> None],
                                             [type |-> "normal", weight_kg |-> None,
                                              reps |-> None],
                                             [type |-> "normal", weight_kg |-> None,
                                              reps |-> None] >>
                         ELSE /\ DOMAIN e = (DOMAIN snapshot[i]) \ {"index"}
                              /\ \A f \in DOMAIN e : e[f] = snapshot[i][f]

\* Incline Press was written in the place of Bench Press, first of the two
\* entries of the snapshot; the second entry was carried over and had an
\* index field in the snapshot
C23_Witness ==
    /\ SuccessfulSwapOfOneEntry
    /\ call.message = <<"use", "Incline", "Press">>
    /\ call.pending.exercise_to_swap_title = BenchPress
    /\ Len(call.pending.current_exercises) = 2
    /\ "index" \in DOMAIN call.pending.current_exercises[2]
    /\ Len(call.out.writes) = 1
    /\ call.out.writes[1].exercises[1].title = InclinePress
    /\ call.out.writes[1].exercises[2].title = Squat

\* C24: at the point where the chat endpoint dispatches a turn to a handler,
\* a live pending context implies that the turn's intent is
\* SUGGESTION_IMPLEMENT: the propose phase and the info, analysis, greeting,
\* unknown and other modification branches are entered with no context
\* pending.
C24_PendingAtDispatch ==
    /\ last.handler_saw_pending => last.intent = "SUGGESTION_IMPLEMENT"
    /\ last.branch \in {"proposed", "no_target_routine", "no_candidates", "unknown_exercise",
                        "missing_exercise_name", "propose_cache_empty", "not_implemented",
                        "info", "analysis", "greeting", "unknown", "fallback"}
          => ~last.handler_saw_pending

\* A swap request resumed after another turn had stored a proposal: the
\* check after classification cleared the slot and the propose phase was
\* entered with nothing pending
C24_Witness ==
    /\ last.intent = "EXERCISE_SWAP"
    /\ last.cleared_unrelated
    /\ ~last.handler_saw_pending
    /\ last.branch = "proposed"

(***************************************************************************)
(* load_templates_cache, step by step                                      *)
(***************************************************************************)

\* load_templates_cache up to its await (ai_workout_optimizer.py 40-44),
\* called by the lifespan or by the fallback of analyze_program on behalf of
\* request r: while the cache is None the template fetch is issued and the
\* call is suspended until it is answered; otherwise the call ends at once
BeginLoad(r) ==
    /\ ~inflight[r].suspended
    /\ call' = [op |-> "load_templates_cache", request |-> r,
                fetch_issued |-> ~cached_templates.loaded]
    /\ inflight' = IF ~cached_templates.loaded
                   THEN [inflight EXCEPT ![r] = [Idle EXCEPT !.suspended = TRUE]]
                   ELSE inflight
    /\ UNCHANGED <<cached_templates, pending_swap_context, conversation_history,
                   pending_owner, last, remote>>

\* The rest of a suspended load: the fetched list, or the empty list when
\* the fetch raised, is assigned to the cache
FinishLoad(r) ==
    /\ inflight[r].suspended
    /\ \E fetched \in TemplateCatalogues :
          /\ cached_templates' = Loaded(fetched)
          /\ call' = [op |-> "load_templates_cache_done", request |-> r,
                      fetch_issued |-> FALSE]
    /\ inflight' = [inflight EXCEPT ![r] = Idle]
    /\ UNCHANGED <<pending_swap_context, conversation_history, pending_owner, last, remote>>

\* Loads of the cache in a process that serves requests, and the chat turns
\* of one conversation once the cache holds a list
NextLoad ==
    \/ \E r \in Requests : BeginLoad(r)
    \/ \E r \in Requests : FinishLoad(r)
    \/ \E message \in SharedMessages :
          Len(conversation_history) <= MaxHistory /\ WorkoutChat("A", message)

SpecLoad == Init /\ [][NextLoad]_vars

\* C25: once the template cache holds a list (the empty list of a failed
\* fetch included) its value never changes again and no later
\* load_templates_cache call issues a template fetch, also when two calls of
\* load_templates_cache overlap.
C25_CachePopulatedOnce ==
    [][ cached_templates.loaded
        => (/\ cached_templates' = cached_templates
            /\ (call' # call /\ call'.op = "load_templates_cache")
                  => ~call'.fetch_issued) ]_vars

\* The text classify_intent got from get_ai_response on the last call
ClassifierResponse == get_ai_response(remote).text

\* The catalog keys that stand in the text as words of their own
LooseKeys(response) ==
    {IntentKeyOrder[i] : i \in {j \in 1..Len(IntentKeyOrder) :
                                   WordMatch(IntentKeyOrder[j], response)}}

\* C26: if the completion response is exactly the catalog key K, or contains
\* K in quotes, and K is the only key matched in that way, classify_intent
\* returns K, whatever other catalog keys the response contains as loose
\* whole-word matches and wherever they stand in the catalog order.
C26_ExactOrQuotedPreferred ==
    (call.op = "classify_intent")
        => \A i \in 1..Len(IntentKeyOrder) :
              (/\ QuotedOrExact(IntentKeyOrder[i], ClassifierResponse)
               /\ \A j \in 1..Len(IntentKeyOrder) :
                     j # i => ~QuotedOrExact(IntentKeyOrder[j], ClassifierResponse))
                  => (~call.result.raised /\ call.result.intent = IntentKeyOrder[i])

\* The response held the last key of the catalog in quotes and the first
\* key as a loose word, and the last key was returned
C26_Witness ==
    /\ call.op = "classify_intent"
    /\ QuotedOrExact("GREETING", ClassifierResponse)
    /\ ~QuotedOrExact("WORKOUT_INFO", ClassifierResponse)
    /\ "WORKOUT_INFO" \in LooseKeys(ClassifierResponse)
    /\ call.result.intent = "GREETING"

\* C27: in every routine write issued by the implement phase, the exercise
\* put in the place of the swapped one is one of the suggestions stored in
\* the pending context, by title and by template id; a name that the
\* selection-verb pattern took from the message and that is not among the
\* stored suggestions never reaches a write.
C27_OnlyShownCandidateWritten ==
    [][ (/\ ChatStep
         /\ IsPendingSwap(pending_swap_context)
         /\ last'.writes # <<>>)
        => \A i \in 1..Len(last'.writes[1].exercises) :
              (pending_swap_context.current_exercises[i].title
                   = pending_swap_context.exercise_to_swap_title)
                  => \E k \in 1..Len(pending_swap_context.suggestions) :
                        /\ pending_swap_context.suggestions[k].name
                               = last'.writes[1].exercises[i].title
                        /\ pending_swap_context.suggestions[k].id
                               = last'.writes[1].exercises[i].exercise_template_id ]_vars

\* C28: with chat turns handled one at a time, a pending context never
\* survives the next chat turn: after that turn, whatever the message and
\* the outcome, the slot is None or holds a proposal that this turn created;
\* the clarification branch of the handler, which would keep the proposal,
\* is not reached through the chat endpoint.
C28_ProposalLivesOneFollowUp ==
    [][ ChatStep
        => (/\ last'.branch # "clarification"
            /\ IsPendingSwap(pending_swap_context)
                  => \/ pending_swap_context' = NoPending
                     \/ /\ last'.router_cleared
                        /\ last'.classified
                        /\ last'.intent = "EXERCISE_SWAP"
                        /\ last'.branch = "proposed") ]_vars

\* The follow-up turn chose a suggestion, the implement phase ended by
\* raising, and the proposal is gone
C28_Witness ==
    /\ last.had_pending
    /\ last.handler_saw_pending
    /\ last.intent = "SUGGESTION_IMPLEMENT"
    /\ last.raised
    /\ pending_swap_context = NoPending

\* C29: if the message is exactly the name of a stored suggestion, in any
\* letter case, the resolved chosen alternative is that suggestion, also
\* when the name of another stored suggestion is contained in it and stands
\* earlier in the list.
C29_ExactNameSelectsCandidate ==
    (ImplementCall /\ IsPendingSwap(call.pending))
        => \A k \in 1..Len(call.pending.suggestions) :
              LowerSeq(call.pending.suggestions[k].name) = LowerSeq(call.message)
                  => call.chosen = call.pending.suggestions[k].name

\* C30: every chat turn that is handled successfully adds exactly two
\* entries to the history, the user's message and the final response; the
\* prompts built for the completion endpoint and second copies of the
\* response do not appear in it, whatever the intent.  (Stated for turns
\* with a message and a response that are not empty.)
C30_HistoryHoldsOnlyRealTurns ==
    [][ (/\ ChatStep
         /\ ~last'.raised
         /\ last'.message # <<>>
         /\ last'.response # "")
        => conversation_history' =
               conversation_history
                   \o << [role |-> "user", content |-> last'.message],
                         [role |-> "assistant", content |-> last'.response] >> ]_vars

====
